---- MODULE Spec2Model ----
(***************************************************************************)
(* A model of the NetWorthApp API route handlers: the balance-entry        *)
(* create / update / delete handlers, the address handlers with their      *)
(* two-statement "set current" update, the partial-update (PUT) handlers   *)
(* of identity documents and mutual funds, and the net-worth trend         *)
(* aggregation.                                                            *)
(*                                                                         *)
(* Abstractions.  Amounts and rates are integers (the arithmetic of the    *)
(* handlers is a single multiplication).  A date is a day number in a      *)
(* calendar whose months all have DaysPerMonth days, so the UTC month of   *)
(* day d is d \div DaysPerMonth.  A JSON value is a tagged record, so      *)
(* that "absent" (undefined), null, and values of the wrong type are       *)
(* distinct inputs of the Zod schemas.                                     *)
(***************************************************************************)
EXTENDS Integers, FiniteSets, Sequences, TLC

VARIABLES
    balanceEntries,   \* the BalanceEntry table: a set of rows
    pc,               \* per request slot: which handler is between its statements
    local,            \* per request slot: the handler's local variables
    resp,             \* per request slot: HTTP status of the last response (0: none)
    addresses,        \* the AddressHistory table
    apc, alocal, aresp, \* request slots of the address handlers
    documents,        \* the IdentityDocument table
    funds,            \* the MutualFund table
    ureq, uresp,      \* last identity-document / mutual-fund request and its status
    trendEntries,     \* rows handed to the net-worth trend handler
    trendData,        \* the handler's response body
    accounts,         \* the Account table
    categories,       \* the AssetCategory table (shared by all users)
    widget,           \* state of the NetWorthTrendWidget component
    response,         \* last response of an account or item handler: status, user, body
    fixedDeposits,    \* the FixedDeposit table
    component         \* state of the client-side component a specification is about

balanceVars == <<balanceEntries, pc, local, resp>>
addressVars == <<addresses, apc, alocal, aresp>>
updateVars  == <<documents, funds, ureq, uresp>>
trendVars   == <<trendEntries, trendData>>
dashVars    == <<accounts, categories, widget, response>>
depositVars == <<fixedDeposits>>
clientVars  == <<component>>
vars == <<balanceEntries, pc, local, resp, addresses, apc, alocal, aresp,
          documents, funds, ureq, uresp, trendEntries, trendData,
          accounts, categories, widget, response, fixedDeposits, component>>

----------------------------------------------------------------------------
(* Bounds *)

NumMonths == 2
MaxAddresses == 3
MaxRows == 1
MaxTrendEntries == 2
MaxAccounts == 2
MaxDeposits == 2
DaysPerMonth == 2

----------------------------------------------------------------------------
(* JSON values *)

Absent == [kind |-> "undefined"]
Null == [kind |-> "null"]
NaN == [kind |-> "nan"]
Num(n) == [kind |-> "num", val |-> n]
Str(s) == [kind |-> "str", val |-> s]
Bool(b) == [kind |-> "bool", val |-> b]
DateVal(d) == [kind |-> "date", val |-> d]
Invalid == [kind |-> "invalid"]

IsNum(v) == v.kind = "num"

Users == {"u1", "u2"}
NoUser == "none"
Sessions == Users \cup {NoUser}
Procs == {"p1", "p2"}

Accounts == {"a1", "a2"}
AccountOwner == [a \in Accounts |-> "u1"]
AccountCurrency == [a \in Accounts |-> IF a = "a1" THEN "USD" ELSE "JPY"]

Dates == 0 .. (NumMonths * DaysPerMonth - 1)

\* String.prototype.toUpperCase on the currency codes in use
toUpperCase(c) ==
    CASE c = "usd" -> "USD"
      [] c = "jpy" -> "JPY"
      [] OTHER -> c

\* parseFloat(val.replace(/,/g, '')) on the strings in use
parseFloat(s) ==
    CASE s = "2" -> Num(2)
      [] s = "1,000" -> Num(1000)
      [] OTHER -> NaN

----------------------------------------------------------------------------
(* Zod field schemas shared by the handlers *)

\* (val) => typeof val === 'string' ? parseFloat(..) : typeof val === 'number' ? val : undefined
PreNumberRequired(v) ==
    CASE v.kind = "str" -> parseFloat(v.val)
      [] v.kind = "num" -> v
      [] OTHER -> Absent

\* (val) => (val === '' || val === null || val === undefined) ? null : string -> parseFloat, number -> val
PreNumberNullable(v) ==
    CASE v = Str("") \/ v = Null \/ v = Absent -> Null
      [] v.kind = "str" -> parseFloat(v.val)
      [] v.kind = "num" -> v
      [] OTHER -> Absent

\* (val) => (val === undefined || val === null || val === '') ? undefined : string -> parseFloat, number -> val
PreNumberOptional(v) ==
    CASE v = Absent \/ v = Null \/ v = Str("") -> Absent
      [] v.kind = "str" -> parseFloat(v.val)
      [] v.kind = "num" -> v
      [] OTHER -> Absent

\* z.number().positive(..).nullable().optional() applied to a preprocessed value
PositiveNullableOptionalOk(v) == v = Absent \/ v = Null \/ (IsNum(v) /\ v.val > 0)

\* z.string().nullable().optional().transform(val => val === "" ? null : val)
NotesOk(v) == v = Absent \/ v = Null \/ v.kind = "str"
NotesTransform(v) == IF v = Str("") THEN Null ELSE v

\* z.boolean().optional()
BoolOptionalOk(v) == v = Absent \/ v.kind = "bool"

\* JavaScript truthiness of a number-or-null value, as in `x && x > 0`
Truthy(v) == IsNum(v) /\ v.val # 0

----------------------------------------------------------------------------
(* Balance entries: POST /api/balance-entries *)

\* as normalizeToFirstOfMonthUTC, but the day of the month is kept
normalizeKeepingDay(date) == date

normalizeToFirstOfMonthUTC(date) == (date \div DaysPerMonth) * DaysPerMonth

\* createBalanceEntrySchema.parse(json): the parsed data, or Invalid (a ZodError)
createBalanceEntrySchema(json) ==
    LET bo == PreNumberRequired(json.balanceOriginal)
        er == PreNumberNullable(json.exchangeRateToBase)
    IN  IF /\ json.accountId.kind = "str" /\ json.accountId.val # ""
           /\ json.entryDate.kind = "date"
           /\ IsNum(bo)
           /\ json.currency.kind = "str"
           /\ PositiveNullableOptionalOk(er)
           /\ NotesOk(json.notes)
           /\ BoolOptionalOk(json.locked)
        THEN [accountId |-> json.accountId.val,
              entryDate |-> json.entryDate.val,
              balanceOriginal |-> bo.val,
              currency |-> json.currency.val,
              exchangeRateToBase |-> er,
              notes |-> NotesTransform(json.notes),
              locked |-> IF json.locked = Absent THEN FALSE ELSE json.locked.val]
        ELSE Invalid

\* balanceInBase as POST computes it from the parsed data
PostBalanceInBase(data) ==
    IF Truthy(data.exchangeRateToBase) /\ data.exchangeRateToBase.val > 0
    THEN Num(data.balanceOriginal * data.exchangeRateToBase.val)
    ELSE Num(data.balanceOriginal)

\* the row POST hands to prisma.balanceEntry.create.  The generated id is modelled by
\* the pair the unique index makes a key, so a row's id is fixed by its contents.
PostRow(user, data) ==
    [id |-> <<data.accountId, normalizeToFirstOfMonthUTC(data.entryDate)>>,
     accountId |-> data.accountId,
     userId |-> user,
     entryDate |-> normalizeToFirstOfMonthUTC(data.entryDate),
     balanceOriginal |-> data.balanceOriginal,
     currency |-> toUpperCase(data.currency),
     exchangeRateToBase |-> IF data.exchangeRateToBase = Absent THEN Null
                            ELSE data.exchangeRateToBase,
     balanceInBase |-> PostBalanceInBase(data),
     locked |-> data.locked,
     notes |-> IF data.notes = Absent THEN Null ELSE data.notes]

\* the database's unique index on (accountId, entryDate): TRUE when row would violate it (P2002)
UniqueAccountEntryDateViolated(table, row) ==
    \E e \in table : e.accountId = row.accountId /\ e.entryDate = row.entryDate

\* a response sent before the handler's first write
Respond(p, op, status) ==
    /\ pc' = [pc EXCEPT ![p] = "done"]
    /\ local' = [local EXCEPT ![p] = [op |-> op]]
    /\ resp' = [resp EXCEPT ![p] = status]
    /\ UNCHANGED balanceEntries

\* POST up to and including prisma.account.findUnique
PostBegin(p, user, json) ==
    /\ pc[p] = "idle"
    /\ LET data == createBalanceEntrySchema(json) IN
       IF user = NoUser THEN Respond(p, "POST", 401)
       ELSE IF data = Invalid THEN Respond(p, "POST", 400)
       ELSE IF data.accountId \notin Accounts \/ AccountOwner[data.accountId] # user
            THEN Respond(p, "POST", 404)
       ELSE IF toUpperCase(AccountCurrency[data.accountId]) # toUpperCase(data.currency)
            THEN Respond(p, "POST", 400)
       ELSE /\ pc' = [pc EXCEPT ![p] = "post"]
            /\ local' = [local EXCEPT ![p] = [op |-> "POST", user |-> user, data |-> data]]
            /\ resp' = [resp EXCEPT ![p] = 0]
            /\ UNCHANGED balanceEntries
    /\ UNCHANGED <<addressVars, updateVars, trendVars, depositVars, clientVars, dashVars>>

\* prisma.balanceEntry.create and the response, or the P2002 branch of the catch
PostCreate(p) ==
    /\ pc[p] = "post"
    /\ LET row == PostRow(local[p].user, local[p].data) IN
       IF UniqueAccountEntryDateViolated(balanceEntries, row)
       THEN /\ resp' = [resp EXCEPT ![p] = 409]
            /\ UNCHANGED balanceEntries
       ELSE /\ balanceEntries' = balanceEntries \cup {row}
            /\ resp' = [resp EXCEPT ![p] = 201]
    /\ pc' = [pc EXCEPT ![p] = "done"]
    /\ UNCHANGED <<local, addressVars, updateVars, trendVars, depositVars, clientVars, dashVars>>

----------------------------------------------------------------------------
(* Balance entries: PUT and DELETE /api/balance-entries/[id] *)

\* updateBalanceEntrySchema.safeParse(json): the parsed data, or Invalid.
\* balanceOriginal is preprocess(..).optional(): undefined skips the inner schema, any
\* other input is preprocessed and must then be a number.  exchangeRateToBase is
\* preprocess(.., ..nullable().optional()): the preprocess runs on undefined too.
updateBalanceEntrySchema(json) ==
    LET bo == IF json.balanceOriginal = Absent THEN Absent
              ELSE PreNumberOptional(json.balanceOriginal)
        er == PreNumberNullable(json.exchangeRateToBase)
    IN  IF /\ json.balanceOriginal = Absent \/ IsNum(bo)
           /\ PositiveNullableOptionalOk(er)
           /\ NotesOk(json.notes)
           /\ BoolOptionalOk(json.locked)
        THEN [balanceOriginal |-> bo,
              exchangeRateToBase |-> er,
              notes |-> NotesTransform(json.notes),
              locked |-> json.locked]
        ELSE Invalid

\* updateLockedBalanceEntrySchema.safeParse(json): a z.object, so unknown keys are stripped
updateLockedBalanceEntrySchema(json) ==
    IF NotesOk(json.notes) /\ BoolOptionalOk(json.locked)
    THEN [notes |-> NotesTransform(json.notes), locked |-> json.locked]
    ELSE Invalid

\* dataToUpdate of the locked branch: only notes and locked
LockedDataToUpdate(parsed) ==
    [balanceOriginal |-> Absent, exchangeRateToBase |-> Absent, balanceInBase |-> Absent,
     notes |-> parsed.notes, locked |-> parsed.locked]

\* as UnlockedDataToUpdate, but the recomputation multiplies the stored balance even when
\* the payload carries a new one
UnlockedDataToUpdateStaleBalance(parsed, existingEntry) ==
    LET newExchangeRate == IF parsed.exchangeRateToBase # Absent
                           THEN parsed.exchangeRateToBase
                           ELSE existingEntry.exchangeRateToBase
        balanceInBase ==
            IF parsed.balanceOriginal # Absent \/ parsed.exchangeRateToBase # Absent
            THEN IF Truthy(newExchangeRate) /\ newExchangeRate.val > 0
                 THEN Num(existingEntry.balanceOriginal * newExchangeRate.val)
                 ELSE Num(existingEntry.balanceOriginal)
            ELSE existingEntry.balanceInBase
    IN  [balanceOriginal |-> parsed.balanceOriginal,
         exchangeRateToBase |-> parsed.exchangeRateToBase,
         balanceInBase |-> balanceInBase,
         notes |-> parsed.notes,
         locked |-> parsed.locked]

\* dataToUpdate of the unlocked branch, with balanceInBase recomputed from existingEntry
UnlockedDataToUpdate(parsed, existingEntry) ==
    LET newBalanceOriginal == IF parsed.balanceOriginal # Absent
                              THEN parsed.balanceOriginal.val
                              ELSE existingEntry.balanceOriginal
        newExchangeRate == IF parsed.exchangeRateToBase # Absent
                           THEN parsed.exchangeRateToBase
                           ELSE existingEntry.exchangeRateToBase
        balanceInBase ==
            IF parsed.balanceOriginal # Absent \/ parsed.exchangeRateToBase # Absent
            THEN IF Truthy(newExchangeRate) /\ newExchangeRate.val > 0
                 THEN Num(newBalanceOriginal * newExchangeRate.val)
                 ELSE Num(newBalanceOriginal)
            ELSE existingEntry.balanceInBase
    IN  [balanceOriginal |-> parsed.balanceOriginal,
         exchangeRateToBase |-> parsed.exchangeRateToBase,
         balanceInBase |-> balanceInBase,
         notes |-> parsed.notes,
         locked |-> parsed.locked]

\* prisma.balanceEntry.update({data}): an undefined field is "no change"
ApplyBalanceUpdate(row, data) ==
    [row EXCEPT
       !.balanceOriginal = IF data.balanceOriginal = Absent THEN @ ELSE data.balanceOriginal.val,
       !.exchangeRateToBase = IF data.exchangeRateToBase = Absent THEN @ ELSE data.exchangeRateToBase,
       !.balanceInBase = IF data.balanceInBase = Absent THEN @ ELSE data.balanceInBase,
       !.notes = IF data.notes = Absent THEN @ ELSE data.notes,
       !.locked = IF data.locked = Absent THEN @ ELSE data.locked.val]

\* if (existingEntry.locked): which schema and which dataToUpdate the request gets
IsLockedNever(existingEntry) == FALSE

IsLocked(existingEntry) == existingEntry.locked

\* PUT up to and including prisma.balanceEntry.findFirst({id, userId})
PutFind(p, user, id, json) ==
    /\ pc[p] = "idle"
    /\ IF user = NoUser THEN Respond(p, "PUT", 401)
       ELSE IF ~ \E e \in balanceEntries : e.id = id /\ e.userId = user
            THEN Respond(p, "PUT", 404)
       ELSE /\ pc' = [pc EXCEPT ![p] = "put"]
            /\ local' = [local EXCEPT ![p] =
                  [op |-> "PUT", user |-> user, id |-> id, json |-> json,
                   existingEntry |-> CHOOSE e \in balanceEntries : e.id = id]]
            /\ resp' = [resp EXCEPT ![p] = 0]
            /\ UNCHANGED balanceEntries
    /\ UNCHANGED <<addressVars, updateVars, trendVars, depositVars, clientVars, dashVars>>

\* the rest of PUT: validation by lock state, prisma.balanceEntry.update, the response
PutUpdate(p) ==
    /\ pc[p] = "put"
    /\ LET existingEntry == local[p].existingEntry
           json == local[p].json
           parsed == IF IsLocked(existingEntry) THEN updateLockedBalanceEntrySchema(json)
                     ELSE updateBalanceEntrySchema(json)
       IN  IF parsed = Invalid
           THEN /\ resp' = [resp EXCEPT ![p] = IF IsLocked(existingEntry) THEN 403 ELSE 400]
                /\ UNCHANGED balanceEntries
           ELSE IF ~ \E e \in balanceEntries : e.id = local[p].id
           THEN /\ resp' = [resp EXCEPT ![p] = 404]
                /\ UNCHANGED balanceEntries
           ELSE LET dataToUpdate == IF IsLocked(existingEntry) THEN LockedDataToUpdate(parsed)
                                    ELSE UnlockedDataToUpdate(parsed, existingEntry)
                    row == CHOOSE e \in balanceEntries : e.id = local[p].id
                IN  /\ balanceEntries' = (balanceEntries \ {row})
                                           \cup {ApplyBalanceUpdate(row, dataToUpdate)}
                    /\ resp' = [resp EXCEPT ![p] = 200]
    /\ pc' = [pc EXCEPT ![p] = "done"]
    /\ UNCHANGED <<local, addressVars, updateVars, trendVars, depositVars, clientVars, dashVars>>

\* DELETE up to and including prisma.balanceEntry.findFirst({id, userId})
DeleteFind(p, user, id) ==
    /\ pc[p] = "idle"
    /\ IF user = NoUser THEN Respond(p, "DELETE", 401)
       ELSE IF ~ \E e \in balanceEntries : e.id = id /\ e.userId = user
            THEN Respond(p, "DELETE", 404)
       ELSE /\ pc' = [pc EXCEPT ![p] = "delete"]
            /\ local' = [local EXCEPT ![p] =
                  [op |-> "DELETE", user |-> user, id |-> id,
                   entry |-> CHOOSE e \in balanceEntries : e.id = id]]
            /\ resp' = [resp EXCEPT ![p] = 0]
            /\ UNCHANGED balanceEntries
    /\ UNCHANGED <<addressVars, updateVars, trendVars, depositVars, clientVars, dashVars>>

\* as DeleteDelete, with the check "if (entry.locked) return 403" in force
DeleteDeleteUnlessLocked(p) ==
    /\ pc[p] = "delete"
    /\ IF local[p].entry.locked
       THEN /\ resp' = [resp EXCEPT ![p] = 403]
            /\ UNCHANGED balanceEntries
       ELSE IF \E e \in balanceEntries : e.id = local[p].id
       THEN /\ balanceEntries' = {e \in balanceEntries : e.id # local[p].id}
            /\ resp' = [resp EXCEPT ![p] = 200]
       ELSE /\ resp' = [resp EXCEPT ![p] = 404]
            /\ UNCHANGED balanceEntries
    /\ pc' = [pc EXCEPT ![p] = "done"]
    /\ UNCHANGED <<local, addressVars, updateVars, trendVars, depositVars, clientVars, dashVars>>

\* prisma.balanceEntry.delete({id}) and the response (P2025 when the row is gone)
DeleteDelete(p) ==
    /\ pc[p] = "delete"
    /\ IF \E e \in balanceEntries : e.id = local[p].id
       THEN /\ balanceEntries' = {e \in balanceEntries : e.id # local[p].id}
            /\ resp' = [resp EXCEPT ![p] = 200]
       ELSE /\ resp' = [resp EXCEPT ![p] = 404]
            /\ UNCHANGED balanceEntries
    /\ pc' = [pc EXCEPT ![p] = "done"]
    /\ UNCHANGED <<local, addressVars, updateVars, trendVars, depositVars, clientVars, dashVars>>

\* the response has been delivered and the handler's locals are gone
Return(p) ==
    /\ pc[p] = "done"
    /\ pc' = [pc EXCEPT ![p] = "idle"]
    /\ local' = [local EXCEPT ![p] = [op |-> "none"]]
    /\ resp' = [resp EXCEPT ![p] = 0]
    /\ UNCHANGED <<balanceEntries, addressVars, updateVars, trendVars, depositVars, clientVars, dashVars>>

----------------------------------------------------------------------------
(* Request payloads *)

FirstMonthDates == 0 .. (DaysPerMonth - 1)
FirstDays == {m * DaysPerMonth : m \in 0 .. (NumMonths - 1)}

PostBody(account, date, balance, currency, rate, notes, locked) ==
    [accountId |-> account, entryDate |-> date, balanceOriginal |-> balance,
     currency |-> currency, exchangeRateToBase |-> rate, notes |-> notes, locked |-> locked]

PutBody(balance, rate, notes, locked) ==
    [balanceOriginal |-> balance, exchangeRateToBase |-> rate, notes |-> notes,
     locked |-> locked]

OwnCurrency(a) == IF a = "a1" THEN Str("usd") ELSE Str("JPY")

\* POST requests of the serial specification: every valid combination of account, amount,
\* rate and lock flag, and one-field variations of a base request
PostRequests ==
    {[user |-> "u1", json |-> PostBody(Str(a), DateVal(0), b, OwnCurrency(a), r, Absent, l)] :
        a \in Accounts, b \in {Num(-2), Num(3)}, r \in {Absent, Num(2)},
        l \in {Absent, Bool(TRUE)}}
    \cup {[user |-> "u1", json |-> PostBody(Str("a1"), DateVal(d), Num(3), Str("usd"), Absent, Absent, Absent)] :
        d \in FirstMonthDates}
    \cup {[user |-> "u1", json |-> PostBody(Str("a1"), DateVal(0), Num(3), Str("usd"), r, Absent, Absent)] :
        r \in {Null, Str(""), Str("2"), Num(0), Bool(TRUE)}}
    \cup {[user |-> "u1", json |-> PostBody(Str("a1"), DateVal(0), Num(3), Str("usd"), Absent, n, Absent)] :
        n \in {Str("n"), Str(""), Num(1)}}
    \cup {[user |-> "u1", json |-> PostBody(Str("a1"), DateVal(0), b, Str("usd"), Absent, Absent, Bool(FALSE))] :
        b \in {Absent, Str("x")}}
    \cup {[user |-> "u1", json |-> PostBody(Str("a9"), DateVal(0), Num(3), Str("usd"), Absent, Absent, Absent)],
          [user |-> "u1", json |-> PostBody(Str("a1"), Absent, Num(3), Str("usd"), Absent, Absent, Absent)],
          [user |-> "u1", json |-> PostBody(Str("a1"), DateVal(0), Num(3), Str("JPY"), Absent, Absent, Absent)],
          [user |-> "u2", json |-> PostBody(Str("a1"), DateVal(0), Num(3), Str("usd"), Absent, Absent, Absent)],
          [user |-> NoUser, json |-> PostBody(Str("a1"), DateVal(0), Num(3), Str("usd"), Absent, Absent, Absent)]}

\* PUT payloads: every combination of amount, rate and lock flag, and variations of notes
\* and of malformed fields
PutBodies ==
    {PutBody(b, r, Absent, l) :
        b \in {Absent, Num(-2), Num(3)}, r \in {Absent, Null, Num(2)},
        l \in {Absent, Bool(TRUE), Bool(FALSE)}}
    \cup {PutBody(b, Absent, n, Absent) : b \in {Absent, Num(3)}, n \in {Str("n"), Str(""), Num(1)}}
    \cup {PutBody(Absent, r, Absent, Absent) : r \in {Str(""), Str("2"), Num(0)}}
    \cup {PutBody(b, Absent, Absent, Absent) : b \in {Null, Str("x")}}

EntryIds == Accounts \X FirstDays

PutRequests ==
    {[user |-> "u1", id |-> i, json |-> j] : i \in EntryIds, j \in PutBodies}
    \cup {[user |-> u, id |-> <<"a1", 0>>, json |-> PutBody(Num(3), Absent, Absent, Absent)] :
            u \in {"u2", NoUser}}

DeleteRequests ==
    {[user |-> "u1", id |-> i] : i \in EntryIds}
    \cup {[user |-> u, id |-> <<"a1", 0>>] : u \in {"u2", NoUser}}

AllIdle == \A q \in Procs : pc[q] = "idle"

----------------------------------------------------------------------------
(* Specification of the balance-entry handlers, requests processed one at a time *)

IdleBalance ==
    /\ balanceEntries = {}
    /\ pc = [q \in Procs |-> "idle"]
    /\ local = [q \in Procs |-> [op |-> "none"]]
    /\ resp = [q \in Procs |-> 0]

IdleAddress ==
    /\ addresses = {} /\ apc = [q \in Procs |-> "idle"]
    /\ alocal = [q \in Procs |-> [op |-> "none"]] /\ aresp = [q \in Procs |-> 0]

IdleUpdate == documents = {} /\ funds = {} /\ ureq = [op |-> "none"] /\ uresp = 0

IdleTrend == trendEntries = {} /\ trendData = [status |-> 0]

NoResponse == [status |-> 0]

IdleDash ==
    /\ accounts = {} /\ categories = {} /\ widget = [state |-> "unmounted"]
    /\ response = NoResponse

IdleDeposits == fixedDeposits = {}

\* no client-side component is mounted
IdleClient == component = [name |-> "none"]

Init == IdleBalance /\ IdleAddress /\ IdleUpdate /\ IdleTrend /\ IdleDash /\ IdleDeposits /\ IdleClient

\* a handler starts only when none is in flight; one worker serves the requests
Next ==
    \/ \E r \in PostRequests : AllIdle /\ PostBegin("p1", r.user, r.json)
    \/ PostCreate("p1")
    \/ \E r \in PutRequests : AllIdle /\ PutFind("p1", r.user, r.id, r.json)
    \/ PutUpdate("p1")
    \/ \E r \in DeleteRequests : AllIdle /\ DeleteFind("p1", r.user, r.id)
    \/ DeleteDelete("p1")
    \/ Return("p1")

Spec == Init /\ [][Next]_vars

----------------------------------------------------------------------------
(* Claims about the balance-entry handlers, requests processed one at a time *)

Amounts(e) == <<e.balanceOriginal, e.exchangeRateToBase, e.balanceInBase>>

Row(id) == CHOOSE e \in balanceEntries : e.id = id

HasRow(id) == \E e \in balanceEntries : e.id = id

\* a PUT whose second statement has run, with its request and the row it found still at hand
PutDone(p) == pc[p] = "done" /\ local[p].op = "PUT" /\ resp[p] \notin {401, 404}

PositiveRate(e) == IsNum(e.exchangeRateToBase) /\ e.exchangeRateToBase.val > 0

\* C1: every stored balance entry has balanceInBase = balanceOriginal * exchangeRateToBase
\* when its rate is non-null and positive, and balanceInBase = balanceOriginal otherwise.
C1_BalanceInBaseConsistent ==
    \A e \in balanceEntries :
        e.balanceInBase = IF PositiveRate(e)
                          THEN Num(e.balanceOriginal * e.exchangeRateToBase.val)
                          ELSE Num(e.balanceOriginal)

\* a PUT has just changed the balance of a row that carries a rate, and another row has none
C1_Witness ==
    /\ PutDone("p1") /\ resp["p1"] = 200
    /\ IsNum(local["p1"].json.balanceOriginal)
    /\ local["p1"].json.balanceOriginal.val # local["p1"].existingEntry.balanceOriginal
    /\ HasRow(local["p1"].id) /\ PositiveRate(Row(local["p1"].id))
    /\ \E e \in balanceEntries : e.exchangeRateToBase = Null

\* C3: after a PUT on an entry that was locked, with a payload that does not set locked to
\* false, the entry's balanceOriginal, exchangeRateToBase and balanceInBase are what they were.
C3_LockedAmountsFrozen ==
    \A p \in Procs :
        (/\ PutDone(p)
         /\ local[p].existingEntry.locked
         /\ local[p].json.locked # Bool(FALSE))
        => /\ HasRow(local[p].id)
           /\ Amounts(Row(local[p].id)) = Amounts(local[p].existingEntry)

\* a PUT carrying a new balance and a new rate was answered 200 on a locked entry
C3_Witness ==
    /\ PutDone("p1") /\ resp["p1"] = 200
    /\ local["p1"].existingEntry.locked
    /\ local["p1"].json.locked # Bool(FALSE)
    /\ IsNum(local["p1"].json.balanceOriginal)
    /\ local["p1"].json.balanceOriginal.val # local["p1"].existingEntry.balanceOriginal
    /\ IsNum(local["p1"].json.exchangeRateToBase)
    /\ local["p1"].existingEntry.exchangeRateToBase = Null

\* the payload carries a balanceOriginal or an exchangeRateToBase that differs from the stored one
CarriesDifferentAmounts(json, e) ==
    \/ IsNum(json.balanceOriginal) /\ json.balanceOriginal.val # e.balanceOriginal
    \/ IsNum(json.exchangeRateToBase) /\ json.exchangeRateToBase # e.exchangeRateToBase
    \/ json.exchangeRateToBase = Null /\ e.exchangeRateToBase # Null

\* C4: a PUT on a locked entry whose payload carries a balanceOriginal or exchangeRateToBase
\* different from the stored value is answered 403 and changes nothing in the store.
C4_LockedChangeForbidden ==
    \A p \in Procs :
        (/\ PutDone(p)
         /\ local[p].existingEntry.locked
         /\ CarriesDifferentAmounts(local[p].json, local[p].existingEntry))
        => /\ resp[p] = 403
           /\ HasRow(local[p].id)
           /\ Row(local[p].id) = local[p].existingEntry

\* C5: a PUT on an unlocked entry whose payload has neither balanceOriginal nor
\* exchangeRateToBase leaves the stored balanceOriginal, exchangeRateToBase and balanceInBase
\* as they were.
C5_AbsentAmountsUntouched ==
    \A p \in Procs :
        (/\ PutDone(p) /\ resp[p] = 200
         /\ ~ local[p].existingEntry.locked
         /\ local[p].json.balanceOriginal = Absent
         /\ local[p].json.exchangeRateToBase = Absent)
        => /\ HasRow(local[p].id)
           /\ Amounts(Row(local[p].id)) = Amounts(local[p].existingEntry)

\* a notes-only or lock-only PUT was answered 200 on an unlocked entry with a positive rate
C5_Witness ==
    /\ PutDone("p1") /\ resp["p1"] = 200
    /\ ~ local["p1"].existingEntry.locked
    /\ local["p1"].json.balanceOriginal = Absent
    /\ local["p1"].json.exchangeRateToBase = Absent
    /\ PositiveRate(local["p1"].existingEntry)

----------------------------------------------------------------------------
(* Specification of concurrent POST /api/balance-entries requests *)

\* POST requests for every account and every day of every month
PostRaceRequests ==
    {[user |-> "u1", json |-> PostBody(Str(a), DateVal(d), Num(3), OwnCurrency(a), Absent, Absent, Absent)] :
        a \in Accounts, d \in Dates}

NextPostRace ==
    \/ \E p \in Procs, r \in PostRaceRequests : PostBegin(p, r.user, r.json)
    \/ \E p \in Procs : PostCreate(p)
    \/ \E p \in Procs : Return(p)

SpecPostRace == Init /\ [][NextPostRace]_vars

\* the UTC calendar month of a date
MonthOf(date) == date \div DaysPerMonth

\* a POST about to run its create statement while the table has an entry of its account and month
PostIntoTakenMonth(p) ==
    /\ pc[p] = "post"
    /\ \E e \in balanceEntries :
          /\ e.accountId = local[p].data.accountId
          /\ MonthOf(e.entryDate) = MonthOf(local[p].data.entryDate)

\* C2: there is at most one balance entry per (accountId, UTC calendar month), and a POST
\* whose entryDate falls in a month that already has an entry for that account is answered
\* 409 and leaves the stored entries unchanged, whatever the day of either request.
C2_OnePerAccountMonth ==
    /\ [](\A e1, e2 \in balanceEntries :
             (e1.accountId = e2.accountId /\ MonthOf(e1.entryDate) = MonthOf(e2.entryDate))
             => e1 = e2)
    /\ [][\A p \in Procs :
             (PostIntoTakenMonth(p) /\ pc'[p] = "done")
             => (resp'[p] = 409 /\ balanceEntries' = balanceEntries)]_vars

\* two POSTs for the same account and month, carrying different days, have both been
\* answered: one 201, the other 409
C2_Witness ==
    /\ pc["p1"] = "done" /\ pc["p2"] = "done"
    /\ local["p1"].op = "POST" /\ local["p2"].op = "POST"
    /\ resp["p1"] = 409 /\ resp["p2"] = 201
    /\ local["p1"].data.accountId = local["p2"].data.accountId
    /\ MonthOf(local["p1"].data.entryDate) = MonthOf(local["p2"].data.entryDate)
    /\ local["p1"].data.entryDate # local["p2"].data.entryDate
    /\ Cardinality(balanceEntries) = 1

----------------------------------------------------------------------------
(* Addresses: POST /api/addresses and PUT /api/addresses/[id].                *)
(* Of the columns, line1 (a required string, optional on update), fromDate    *)
(* (a required date), toDate (a nullable date) and isCurrent are modelled;    *)
(* the other columns have the schema of one of these.                         *)

\* preprocess of a date that maps "", null and undefined to null (toDate)
PreDateNullable(v) ==
    CASE v.kind = "undefined" \/ v.kind = "null" \/ (v.kind = "str" /\ v.val = "") -> Null
      [] v.kind = "date" -> v
      [] OTHER -> Absent

\* preprocess of a date that maps "", null and undefined to undefined (update fromDate)
PreDateOptional(v) ==
    CASE v.kind = "date" -> v
      [] OTHER -> Absent

\* preprocess of a required date: anything that is no date becomes null (create fromDate)
PreDateRequired(v) ==
    CASE v.kind = "date" -> v
      [] OTHER -> Null

DateNullableOptionalOk(v) == v.kind \in {"undefined", "null", "date"}

NonEmptyString(v) == v.kind = "str" /\ v.val # ""

createAddressSchema(json) ==
    LET fromDate == PreDateRequired(json.fromDate)
        toDate == PreDateNullable(json.toDate)
    IN  IF /\ NonEmptyString(json.line1)
           /\ fromDate.kind = "date"
           /\ DateNullableOptionalOk(toDate)
           /\ BoolOptionalOk(json.isCurrent)
        THEN [line1 |-> json.line1, fromDate |-> fromDate, toDate |-> toDate,
              isCurrent |-> IF json.isCurrent = Absent THEN Bool(FALSE) ELSE json.isCurrent]
        ELSE Invalid

updateAddressSchema(json) ==
    LET fromDate == PreDateOptional(json.fromDate)
        toDate == PreDateNullable(json.toDate)
    IN  IF /\ json.line1 = Absent \/ NonEmptyString(json.line1)
           /\ DateNullableOptionalOk(toDate)
           /\ BoolOptionalOk(json.isCurrent)
        THEN [line1 |-> json.line1, fromDate |-> fromDate, toDate |-> toDate,
              isCurrent |-> json.isCurrent]
        ELSE Invalid

\* as DemoteAll, but the statement changes no row
DemoteAllSkipped(table, user) == table

\* prisma.addressHistory.updateMany({where: {userId, isCurrent: true}, data: {isCurrent: false}})
DemoteAll(table, user) ==
    {IF a.userId = user /\ a.isCurrent THEN [a EXCEPT !.isCurrent = FALSE] ELSE a : a \in table}

\* as DemoteOthers, but the statement changes no row
DemoteNone(table, user, id) == table

\* the same updateMany with id: {not: id}
DemoteOthers(table, user, id) ==
    {IF a.userId = user /\ a.isCurrent /\ a.id # id THEN [a EXCEPT !.isCurrent = FALSE] ELSE a :
        a \in table}

\* prisma.addressHistory.update({data}): an undefined field is "no change"
ApplyAddressUpdate(row, data) ==
    [row EXCEPT
       !.line1 = IF data.line1 = Absent THEN @ ELSE data.line1.val,
       !.fromDate = IF data.fromDate = Absent THEN @ ELSE data.fromDate.val,
       !.toDate = IF data.toDate = Absent THEN @ ELSE data.toDate,
       !.isCurrent = IF data.isCurrent = Absent THEN @ ELSE data.isCurrent.val]

AddressRespond(p, op, status) ==
    /\ apc' = [apc EXCEPT ![p] = "done"]
    /\ alocal' = [alocal EXCEPT ![p] = [op |-> op]]
    /\ aresp' = [aresp EXCEPT ![p] = status]
    /\ UNCHANGED addresses

\* a fresh primary key (cuid()): the first one no stored row of the table uses
FreshId(table) == CHOOSE i \in 1 .. (Cardinality(table) + 1) : \A r \in table : r.id # i

InFlightAddressPosts == Cardinality({q \in Procs : apc[q] \in {"post_demote", "post_create"}})

\* POST up to its first database statement
AddressPostBegin(p, user, json) ==
    /\ apc[p] = "idle"
    /\ Cardinality(addresses) + InFlightAddressPosts < MaxAddresses
    /\ LET data == createAddressSchema(json) IN
       IF user = NoUser THEN AddressRespond(p, "POST", 401)
       ELSE IF data = Invalid THEN AddressRespond(p, "POST", 400)
       ELSE /\ apc' = [apc EXCEPT ![p] = IF data.isCurrent.val THEN "post_demote"
                                         ELSE "post_create"]
            /\ alocal' = [alocal EXCEPT ![p] =
                  [op |-> "POST", user |-> user, data |-> data, demoted |-> FALSE, count |-> 0,
                   id |-> 0]]
            /\ aresp' = [aresp EXCEPT ![p] = 0]
            /\ UNCHANGED addresses
    /\ UNCHANGED <<balanceVars, updateVars, trendVars, depositVars, clientVars, dashVars>>

\* if (data.isCurrent) await prisma.addressHistory.updateMany(..)
AddressPostDemote(p) ==
    /\ apc[p] = "post_demote"
    /\ addresses' = DemoteAll(addresses, alocal[p].user)
    /\ apc' = [apc EXCEPT ![p] = "post_create"]
    /\ alocal' = [alocal EXCEPT ![p].demoted = TRUE,
                                ![p].count = Cardinality(addresses \ addresses')]
    /\ UNCHANGED <<aresp, balanceVars, updateVars, trendVars, depositVars, clientVars, dashVars>>

\* prisma.addressHistory.create and the 201 response
AddressPostCreate(p) ==
    /\ apc[p] = "post_create"
    /\ LET id == FreshId(addresses)
           data == alocal[p].data
       IN  /\ addresses' = addresses \cup
                 {[id |-> id, userId |-> alocal[p].user, line1 |-> data.line1.val,
                   fromDate |-> data.fromDate.val, toDate |-> data.toDate,
                   isCurrent |-> data.isCurrent.val]}
           /\ alocal' = [alocal EXCEPT ![p].id = id]
    /\ apc' = [apc EXCEPT ![p] = "done"]
    /\ aresp' = [aresp EXCEPT ![p] = 201]
    /\ UNCHANGED <<balanceVars, updateVars, trendVars, depositVars, clientVars, dashVars>>

\* PUT up to its first writing statement: the schema, and for isCurrent === true the findFirst
AddressPutBegin(p, user, id, json) ==
    /\ apc[p] = "idle"
    /\ LET data == updateAddressSchema(json)
           found == {a \in addresses : a.id = id /\ a.userId = user}
       IN
       IF user = NoUser THEN AddressRespond(p, "PUT", 401)
       ELSE IF data = Invalid THEN AddressRespond(p, "PUT", 400)
       ELSE IF data.isCurrent = Bool(TRUE) /\ found = {} THEN AddressRespond(p, "PUT", 404)
       ELSE /\ apc' = [apc EXCEPT ![p] =
                  IF data.isCurrent = Bool(TRUE) /\ ~ (CHOOSE a \in found : TRUE).isCurrent
                  THEN "put_demote" ELSE "put_update"]
            /\ alocal' = [alocal EXCEPT ![p] =
                  [op |-> "PUT", user |-> user, data |-> data, demoted |-> FALSE, count |-> 0,
                   id |-> id, json |-> json]]
            /\ aresp' = [aresp EXCEPT ![p] = 0]
            /\ UNCHANGED addresses
    /\ UNCHANGED <<balanceVars, updateVars, trendVars, depositVars, clientVars, dashVars>>

\* if (!existingAddress.isCurrent) await prisma.addressHistory.updateMany(..)
AddressPutDemote(p) ==
    /\ apc[p] = "put_demote"
    /\ addresses' = DemoteOthers(addresses, alocal[p].user, alocal[p].id)
    /\ apc' = [apc EXCEPT ![p] = "put_update"]
    /\ alocal' = [alocal EXCEPT ![p].demoted = TRUE,
                                ![p].count = Cardinality(addresses \ addresses')]
    /\ UNCHANGED <<aresp, balanceVars, updateVars, trendVars, depositVars, clientVars, dashVars>>

\* prisma.addressHistory.update({where: {id, userId}, data}) and the response (P2025: 404)
AddressPutUpdate(p) ==
    /\ apc[p] = "put_update"
    /\ LET found == {a \in addresses : a.id = alocal[p].id /\ a.userId = alocal[p].user} IN
       IF found = {}
       THEN /\ aresp' = [aresp EXCEPT ![p] = 404]
            /\ UNCHANGED addresses
       ELSE /\ addresses' = (addresses \ found)
                              \cup {ApplyAddressUpdate(a, alocal[p].data) : a \in found}
            /\ aresp' = [aresp EXCEPT ![p] = 200]
    /\ apc' = [apc EXCEPT ![p] = "done"]
    /\ UNCHANGED <<alocal, balanceVars, updateVars, trendVars, depositVars, clientVars, dashVars>>

\* the response has been delivered and the handler's locals are gone
AddressReturn(p) ==
    /\ apc[p] \in {"done", "crashed"}
    /\ apc' = [apc EXCEPT ![p] = "idle"]
    /\ alocal' = [alocal EXCEPT ![p] = [op |-> "none"]]
    /\ aresp' = [aresp EXCEPT ![p] = 0]
    /\ UNCHANGED <<addresses, balanceVars, updateVars, trendVars, depositVars, clientVars, dashVars>>

\* DELETE: one deleteMany({where: {id, userId}}) and the answer from its count
AddressDelete(p, user, id) ==
    /\ apc[p] = "idle"
    /\ LET deleted == {a \in addresses : a.id = id /\ a.userId = user}
       IN  IF user = NoUser THEN AddressRespond(p, "DELETE", 401)
           ELSE IF deleted = {} THEN AddressRespond(p, "DELETE", 404)
           ELSE /\ addresses' = addresses \ deleted
                /\ apc' = [apc EXCEPT ![p] = "done"]
                /\ alocal' = [alocal EXCEPT ![p] = [op |-> "DELETE"]]
                /\ aresp' = [aresp EXCEPT ![p] = 200]
    /\ UNCHANGED <<balanceVars, updateVars, trendVars, depositVars, clientVars, dashVars>>

\* the server process stops between two statements of a handler
AddressCrash(p) ==
    /\ apc[p] \in {"post_demote", "post_create", "put_demote", "put_update"}
    /\ apc' = [apc EXCEPT ![p] = "crashed"]
    /\ UNCHANGED <<addresses, alocal, aresp, balanceVars, updateVars, trendVars, depositVars, clientVars, dashVars>>

AddressBody(line1, fromDate, toDate, isCurrent) ==
    [line1 |-> line1, fromDate |-> fromDate, toDate |-> toDate, isCurrent |-> isCurrent]

AddressIds == 1 .. MaxAddresses

\* requests that differ in the user, the target and isCurrent only
AddressPostRequests ==
    {[user |-> u, json |-> AddressBody(Str("x"), DateVal(0), Absent, c)] :
        u \in Sessions, c \in {Absent, Bool(TRUE), Bool(FALSE)}}
    \cup {[user |-> "u1", json |-> AddressBody(Str(""), DateVal(0), Absent, Absent)]}

AddressPutRequests ==
    {[user |-> u, id |-> i, json |-> AddressBody(Absent, Absent, Absent, c)] :
        u \in Sessions, i \in AddressIds, c \in {Absent, Bool(TRUE), Bool(FALSE)}}
    \cup {[user |-> "u1", id |-> 1, json |-> AddressBody(Str(""), Absent, Absent, Absent)]}

AddressDeleteRequests ==
    {[user |-> u, id |-> i] : u \in Users, i \in AddressIds} \cup {[user |-> NoUser, id |-> 1]}

AddressAllIdle == \A q \in Procs : apc[q] = "idle"

\* address requests processed one at a time by one worker, which may stop at any statement
NextAddress ==
    \/ \E r \in AddressPostRequests : AddressAllIdle /\ AddressPostBegin("p1", r.user, r.json)
    \/ AddressPostDemote("p1")
    \/ AddressPostCreate("p1")
    \/ \E r \in AddressPutRequests : AddressAllIdle /\ AddressPutBegin("p1", r.user, r.id, r.json)
    \/ AddressPutDemote("p1")
    \/ AddressPutUpdate("p1")
    \/ \E r \in AddressDeleteRequests : AddressAllIdle /\ AddressDelete("p1", r.user, r.id)
    \/ AddressReturn("p1")
    \/ AddressCrash("p1")

SpecAddress == Init /\ [][NextAddress]_vars

\* POST and PUT requests of user u1 whose statements interleave
AddressRaceRequests == {r \in AddressPostRequests \cup AddressPutRequests : r.user = "u1"}

NextAddressRace ==
    \/ \E p \in Procs, r \in AddressRaceRequests \cap AddressPostRequests :
          AddressPostBegin(p, r.user, r.json)
    \/ \E p \in Procs : AddressPostDemote(p)
    \/ \E p \in Procs : AddressPostCreate(p)
    \/ \E p \in Procs, r \in AddressRaceRequests \cap AddressPutRequests :
          AddressPutBegin(p, r.user, r.id, r.json)
    \/ \E p \in Procs : AddressPutDemote(p)
    \/ \E p \in Procs : AddressPutUpdate(p)
    \/ \E p \in Procs : AddressReturn(p)

SpecAddressRace == Init /\ [][NextAddressRace]_vars

----------------------------------------------------------------------------
(* Claims about the address handlers *)

CurrentOf(u) == {a \in addresses : a.userId = u /\ a.isCurrent}

\* a request with isCurrent = true that was answered 201 or 200
SetCurrentDone(p) ==
    /\ apc[p] = "done" /\ aresp[p] \in {200, 201}
    /\ alocal[p].op \in {"POST", "PUT"}
    /\ alocal[p].data.isCurrent = Bool(TRUE)

\* C7: with address requests processed one at a time, at most one address per user is
\* current in every state, and after a successful POST or PUT with isCurrent = true exactly
\* one address of that user is current: the one just created or updated.
C7_OneCurrentAddress ==
    /\ \A u \in Users : Cardinality(CurrentOf(u)) <= 1
    /\ \A p \in Procs :
          SetCurrentDone(p) =>
              \E a \in addresses : a.id = alocal[p].id /\ CurrentOf(alocal[p].user) = {a}

\* a PUT with isCurrent = true has moved the current flag from another address of the user
C7_Witness ==
    /\ SetCurrentDone("p1") /\ alocal["p1"].op = "PUT"
    /\ alocal["p1"].demoted /\ alocal["p1"].count = 1
    /\ \E a \in addresses : a.userId = alocal["p1"].user /\ a.id # alocal["p1"].id
    /\ \E a \in addresses : a.userId # alocal["p1"].user /\ a.isCurrent

\* C8: two interleaved requests of one user that each set isCurrent = true on a different
\* address can both succeed and leave both addresses current (C8_Witness is that state);
\* no interleaving of the two request slots leaves more current addresses than slots.
C8_CurrentAtMostPerSlot ==
    \A u \in Users : Cardinality(CurrentOf(u)) <= Cardinality(Procs)

\* both requests were answered 201 / 200, their addresses differ and both are current
C8_Witness ==
    /\ SetCurrentDone("p1") /\ SetCurrentDone("p2")
    /\ alocal["p1"].user = alocal["p2"].user
    /\ alocal["p1"].id # alocal["p2"].id
    /\ alocal["p1"].op = "POST" /\ alocal["p2"].op = "PUT"
    /\ \A p \in Procs : \E a \in CurrentOf(alocal[p].user) : a.id = alocal[p].id

\* a set-current request stopped after its demote statement and before its create / update
CrashedAfterDemote(p) == apc[p] = "crashed" /\ alocal[p].demoted

\* C9 as stated: a set-current request that stops between its demote statement and its
\* create / update leaves the user with more than one current address.
C9_CrashLeavesSeveralCurrent ==
    \A p \in Procs :
        CrashedAfterDemote(p) => Cardinality(CurrentOf(alocal[p].user)) > 1

\* C9 amended: such a request leaves the user with no current address at all.
C9_CrashLeavesNoCurrent ==
    \A p \in Procs :
        CrashedAfterDemote(p) => CurrentOf(alocal[p].user) = {}

\* the request stopped after demoting the one address that was current
C9_Witness ==
    /\ CrashedAfterDemote("p1")
    /\ alocal["p1"].count = 1
    /\ alocal["p1"].op = "PUT"

----------------------------------------------------------------------------
(* Identity documents: /api/identity-documents and /api/identity-documents/[id] *)

\* rows held by the three tables of the partial-update endpoints together
StoredRows == Cardinality(addresses) + Cardinality(documents) + Cardinality(funds)

RowIds == 1 .. MaxRows

\* create preprocess of a date: strings and Dates are converted, anything else is null
PreDateOrNull(v) ==
    CASE v.kind = "date" -> v
      [] OTHER -> Null

createIdentityDocumentSchema(json) ==
    LET issueDate == PreDateOrNull(json.issueDate)
        expiryDate == PreDateOrNull(json.expiryDate)
    IN  IF NonEmptyString(json.docNumber) /\ BoolOptionalOk(json.isPrimary)
        THEN [docNumber |-> json.docNumber, issueDate |-> issueDate,
              expiryDate |-> expiryDate,
              isPrimary |-> IF json.isPrimary = Absent THEN Bool(FALSE) ELSE json.isPrimary]
        ELSE Invalid

updateIdentityDocumentSchema(json) ==
    LET issueDate == PreDateNullable(json.issueDate)
        expiryDate == PreDateNullable(json.expiryDate)
    IN  IF /\ json.docNumber = Absent \/ NonEmptyString(json.docNumber)
           /\ DateNullableOptionalOk(issueDate)
           /\ DateNullableOptionalOk(expiryDate)
           /\ BoolOptionalOk(json.isPrimary)
        THEN [docNumber |-> json.docNumber, issueDate |-> issueDate,
              expiryDate |-> expiryDate, isPrimary |-> json.isPrimary]
        ELSE Invalid

\* the unique index on (userId, docType, docNumber) the PUT handler answers with 409
UniqueDocNumberViolated(table, row) ==
    \E r \in table : r.id # row.id /\ r.userId = row.userId /\ r.docNumber = row.docNumber

\* prisma update: an undefined field of data is left alone, any other value is stored
ApplyDocumentUpdate(row, data) ==
    [row EXCEPT
       !.docNumber = IF data.docNumber = Absent THEN @ ELSE data.docNumber.val,
       !.issueDate = IF data.issueDate = Absent THEN @ ELSE data.issueDate,
       !.expiryDate = IF data.expiryDate = Absent THEN @ ELSE data.expiryDate,
       !.isPrimary = IF data.isPrimary = Absent THEN @ ELSE data.isPrimary.val]

UpdateRespond(table, op, user, id, json, status) ==
    /\ ureq' = [op |-> op, table |-> table, user |-> user, id |-> id, json |-> json]
    /\ uresp' = status

UpdateIdle == ureq.op = "none" /\ AddressAllIdle

DocumentPost(user, json) ==
    /\ UpdateIdle /\ StoredRows < MaxRows
    /\ LET data == createIdentityDocumentSchema(json)
           row == [id |-> FreshId(documents), userId |-> user,
                   docNumber |-> data.docNumber.val, issueDate |-> data.issueDate,
                   expiryDate |-> data.expiryDate, isPrimary |-> data.isPrimary.val]
       IN  CASE user = NoUser ->
                  UpdateRespond("documents", "POST", user, 0, json, 401)
                  /\ UNCHANGED documents
             [] user # NoUser /\ data = Invalid ->
                  UpdateRespond("documents", "POST", user, 0, json, 400)
                  /\ UNCHANGED documents
             [] user # NoUser /\ data # Invalid /\ UniqueDocNumberViolated(documents, row) ->
                  UpdateRespond("documents", "POST", user, 0, json, 500)
                  /\ UNCHANGED documents
             [] OTHER ->
                  UpdateRespond("documents", "POST", user, row.id, json, 201)
                  /\ documents' = documents \cup {row}
    /\ UNCHANGED <<funds, balanceVars, addressVars, trendVars, depositVars, clientVars, dashVars>>

DocumentPut(user, id, json) ==
    /\ UpdateIdle
    /\ LET data == updateIdentityDocumentSchema(json)
           found == {r \in documents : r.id = id}
           owned == {r \in found : r.userId = user}
       IN  CASE user = NoUser ->
                  UpdateRespond("documents", "PUT", user, id, json, 401)
                  /\ UNCHANGED documents
             [] user # NoUser /\ owned = {} ->
                  UpdateRespond("documents", "PUT", user, id, json, 404)
                  /\ UNCHANGED documents
             [] user # NoUser /\ owned # {} /\ data = Invalid ->
                  UpdateRespond("documents", "PUT", user, id, json, 400)
                  /\ UNCHANGED documents
             [] OTHER ->
                  \E existingDocument \in owned :
                     LET updated == ApplyDocumentUpdate(existingDocument, data)
                     IN  IF UniqueDocNumberViolated(documents, updated)
                         THEN UpdateRespond("documents", "PUT", user, id, json, 409)
                              /\ UNCHANGED documents
                         ELSE UpdateRespond("documents", "PUT", user, id, json, 200)
                              /\ documents' =
                                    (documents \ {existingDocument}) \cup {updated}
    /\ UNCHANGED <<funds, balanceVars, addressVars, trendVars, depositVars, clientVars, dashVars>>

DocumentDelete(user, id) ==
    /\ UpdateIdle
    /\ LET deleted == {r \in documents : r.id = id /\ r.userId = user}
       IN  CASE user = NoUser ->
                  UpdateRespond("documents", "DELETE", user, id, Absent, 401)
                  /\ UNCHANGED documents
             [] user # NoUser /\ deleted = {} ->
                  UpdateRespond("documents", "DELETE", user, id, Absent, 404)
                  /\ UNCHANGED documents
             [] OTHER ->
                  UpdateRespond("documents", "DELETE", user, id, Absent, 200)
                  /\ documents' = documents \ deleted
    /\ UNCHANGED <<funds, balanceVars, addressVars, trendVars, depositVars, clientVars, dashVars>>

\* the response has been sent; the next request starts from a clean slate
UpdateReturn ==
    /\ ureq.op # "none"
    /\ ureq' = [op |-> "none"] /\ uresp' = 0
    /\ UNCHANGED <<documents, funds, balanceVars, addressVars, trendVars, depositVars, clientVars, dashVars>>

----------------------------------------------------------------------------
(* Mutual funds: /api/mutual-funds and /api/mutual-funds/[id] *)

\* z.string().min(2).max(10) on the currency codes in use
CurrencyCodeOk(v) == v.kind = "str" /\ v.val \in {"usd", "jpy", "USD", "JPY"}

createMutualFundSchema(json) ==
    LET unitsHeld == PreNumberRequired(json.unitsHeld)
        currentNAV == PreNumberNullable(json.currentNAV)
    IN  IF /\ NonEmptyString(json.fundName)
           /\ IsNum(unitsHeld) /\ unitsHeld.val > 0
           /\ PositiveNullableOptionalOk(currentNAV)
           /\ CurrencyCodeOk(json.currency)
        THEN [fundName |-> json.fundName, unitsHeld |-> unitsHeld,
              currentNAV |-> currentNAV, currency |-> json.currency]
        ELSE Invalid

\* z.preprocess(.., z.number().positive()).optional(): undefined passes untouched, any
\* other input goes through the preprocess and must come out a positive number
PositiveOptionalOuter(v) ==
    IF v = Absent THEN Absent
    ELSE LET n == PreNumberOptional(v)
         IN  IF IsNum(n) /\ n.val > 0 THEN n ELSE Invalid

updateMutualFundSchema(json) ==
    LET unitsHeld == PositiveOptionalOuter(json.unitsHeld)
        currentNAV == PreNumberNullable(json.currentNAV)
    IN  IF /\ json.fundName = Absent \/ NonEmptyString(json.fundName)
           /\ unitsHeld # Invalid
           /\ PositiveNullableOptionalOk(currentNAV)
           /\ json.currency = Absent \/ CurrencyCodeOk(json.currency)
        THEN [fundName |-> json.fundName, unitsHeld |-> unitsHeld,
              currentNAV |-> currentNAV, currency |-> json.currency]
        ELSE Invalid

\* const updateData = {...data}; if (updateData.currency) updateData.currency = ..toUpperCase()
FundUpdateData(data) ==
    IF data.currency = Absent THEN data
    ELSE [data EXCEPT !.currency = Str(toUpperCase(data.currency.val))]

ApplyFundUpdate(row, updateData) ==
    [row EXCEPT
       !.fundName = IF updateData.fundName = Absent THEN @ ELSE updateData.fundName.val,
       !.unitsHeld = IF updateData.unitsHeld = Absent THEN @ ELSE updateData.unitsHeld.val,
       !.currentNAV = IF updateData.currentNAV = Absent THEN @ ELSE updateData.currentNAV,
       !.currency = IF updateData.currency = Absent THEN @ ELSE updateData.currency.val]

FundPost(user, json) ==
    /\ UpdateIdle /\ StoredRows < MaxRows
    /\ LET data == createMutualFundSchema(json)
           row == [id |-> FreshId(funds), userId |-> user,
                   fundName |-> data.fundName.val, unitsHeld |-> data.unitsHeld.val,
                   currentNAV |-> data.currentNAV,
                   currency |-> toUpperCase(data.currency.val)]
       IN  CASE user = NoUser ->
                  UpdateRespond("funds", "POST", user, 0, json, 401) /\ UNCHANGED funds
             [] user # NoUser /\ data = Invalid ->
                  UpdateRespond("funds", "POST", user, 0, json, 400) /\ UNCHANGED funds
             [] OTHER ->
                  UpdateRespond("funds", "POST", user, row.id, json, 201)
                  /\ funds' = funds \cup {row}
    /\ UNCHANGED <<documents, balanceVars, addressVars, trendVars, depositVars, clientVars, dashVars>>

FundPut(user, id, json) ==
    /\ UpdateIdle
    /\ LET data == updateMutualFundSchema(json)
           owned == {r \in funds : r.id = id /\ r.userId = user}
       IN  CASE user = NoUser ->
                  UpdateRespond("funds", "PUT", user, id, json, 401) /\ UNCHANGED funds
             [] user # NoUser /\ data = Invalid ->
                  UpdateRespond("funds", "PUT", user, id, json, 400) /\ UNCHANGED funds
             [] user # NoUser /\ data # Invalid /\ owned = {} ->
                  UpdateRespond("funds", "PUT", user, id, json, 404) /\ UNCHANGED funds
             [] OTHER ->
                  \E existing \in owned :
                     /\ UpdateRespond("funds", "PUT", user, id, json, 200)
                     /\ funds' = (funds \ {existing})
                                    \cup {ApplyFundUpdate(existing, FundUpdateData(data))}
    /\ UNCHANGED <<documents, balanceVars, addressVars, trendVars, depositVars, clientVars, dashVars>>

FundDelete(user, id) ==
    /\ UpdateIdle
    /\ LET deleted == {r \in funds : r.id = id /\ r.userId = user}
       IN  CASE user = NoUser ->
                  UpdateRespond("funds", "DELETE", user, id, Absent, 401) /\ UNCHANGED funds
             [] user # NoUser /\ deleted = {} ->
                  UpdateRespond("funds", "DELETE", user, id, Absent, 404) /\ UNCHANGED funds
             [] OTHER ->
                  UpdateRespond("funds", "DELETE", user, id, Absent, 200)
                  /\ funds' = funds \ deleted
    /\ UNCHANGED <<documents, balanceVars, addressVars, trendVars, depositVars, clientVars, dashVars>>

----------------------------------------------------------------------------
(* Partial updates: requests to the three PUT endpoints, one at a time *)

DocumentBody(docNumber, issueDate, expiryDate, isPrimary) ==
    [docNumber |-> docNumber, issueDate |-> issueDate, expiryDate |-> expiryDate,
     isPrimary |-> isPrimary]

FundBody(fundName, unitsHeld, currentNAV, currency) ==
    [fundName |-> fundName, unitsHeld |-> unitsHeld, currentNAV |-> currentNAV,
     currency |-> currency]

DocumentPostRequests ==
    {[user |-> u, json |-> DocumentBody(Str(n), i, e, Absent)] :
        u \in Users, n \in {"d1", "d2"}, i \in {Absent, DateVal(1)}, e \in {Absent, DateVal(2)}}
    \cup {[user |-> NoUser, json |-> DocumentBody(Str("d1"), Absent, Absent, Absent)],
          [user |-> "u1", json |-> DocumentBody(Str(""), Absent, Absent, Absent)]}

DocumentPutBodies ==
    {DocumentBody(Absent, Absent, Absent, Absent),
     DocumentBody(Str("d2"), Absent, Absent, Absent),
     DocumentBody(Absent, DateVal(2), Absent, Absent),
     DocumentBody(Absent, Absent, Null, Absent),
     DocumentBody(Absent, Absent, Absent, Bool(TRUE)),
     DocumentBody(Str(""), Absent, Absent, Absent)}

DocumentPutRequests ==
    {[user |-> u, id |-> i, json |-> j] : u \in Users, i \in RowIds, j \in DocumentPutBodies}
    \cup {[user |-> NoUser, id |-> 1, json |-> DocumentBody(Absent, Absent, Absent, Absent)]}

FundPostRequests ==
    {[user |-> u, json |-> FundBody(Str("f"), Num(2), n, Str(c))] :
        u \in Users, n \in {Absent, Num(2), Str("1,000")}, c \in {"usd", "JPY"}}
    \cup {[user |-> NoUser, json |-> FundBody(Str("f"), Num(2), Absent, Str("usd"))],
          [user |-> "u1", json |-> FundBody(Str("f"), Num(0), Absent, Str("usd"))]}

FundPutBodies ==
    {FundBody(Absent, Absent, Absent, Absent),
     FundBody(Str("g"), Absent, Absent, Absent),
     FundBody(Absent, Str("2"), Absent, Absent),
     FundBody(Absent, Absent, Num(2), Absent),
     FundBody(Absent, Absent, Absent, Str("jpy")),
     FundBody(Absent, Null, Absent, Absent)}

FundPutRequests ==
    {[user |-> u, id |-> i, json |-> j] : u \in Users, i \in RowIds, j \in FundPutBodies}
    \cup {[user |-> NoUser, id |-> 1, json |-> FundBody(Absent, Absent, Absent, Absent)]}

RowDeleteRequests ==
    {[user |-> u, id |-> i] : u \in Users, i \in RowIds} \cup {[user |-> NoUser, id |-> 1]}

UpdateAddressPostRequests ==
    {[user |-> u, json |-> AddressBody(Str("x"), DateVal(0), t, c)] :
        u \in Users, t \in {Absent, DateVal(1)}, c \in {Absent, Bool(TRUE)}}

UpdateAddressPutRequests ==
    {[user |-> u, id |-> i, json |-> j] :
        u \in Users, i \in RowIds,
        j \in {AddressBody(Absent, Absent, Absent, Absent),
               AddressBody(Str("y"), Absent, Absent, Absent),
               AddressBody(Absent, DateVal(1), Absent, Absent),
               AddressBody(Absent, Absent, DateVal(2), Absent),
               AddressBody(Absent, Absent, Absent, Bool(TRUE))}}

NextUpdate ==
    \/ \E r \in DocumentPostRequests : DocumentPost(r.user, r.json)
    \/ \E r \in DocumentPutRequests : DocumentPut(r.user, r.id, r.json)
    \/ \E r \in RowDeleteRequests : DocumentDelete(r.user, r.id)
    \/ \E r \in FundPostRequests : FundPost(r.user, r.json)
    \/ \E r \in FundPutRequests : FundPut(r.user, r.id, r.json)
    \/ \E r \in RowDeleteRequests : FundDelete(r.user, r.id)
    \/ UpdateReturn
    \/ \E r \in UpdateAddressPostRequests :
          UpdateIdle /\ StoredRows < MaxRows /\ AddressPostBegin("p1", r.user, r.json)
    \/ AddressPostDemote("p1")
    \/ AddressPostCreate("p1")
    \/ \E r \in UpdateAddressPutRequests :
          UpdateIdle /\ AddressPutBegin("p1", r.user, r.id, r.json)
    \/ AddressPutDemote("p1")
    \/ AddressPutUpdate("p1")
    \/ \E r \in RowDeleteRequests : UpdateIdle /\ AddressDelete("p1", r.user, r.id)
    \/ AddressReturn("p1")

SpecUpdate == Init /\ [][NextUpdate]_vars

----------------------------------------------------------------------------
(* Claims about the partial-update endpoints *)

\* every field the payload leaves out has the same value in the row before and after
AbsentFieldsKept(json, before, after) ==
    \A f \in DOMAIN json : json[f] = Absent => after[f] = before[f]

\* the step is the update statement of a PUT, answered 200
AddressPutApplied ==
    apc["p1"] = "put_update" /\ apc'["p1"] = "done" /\ aresp'["p1"] = 200

TablePutApplied(table) ==
    ureq.op = "none" /\ ureq'.op = "PUT" /\ ureq'.table = table /\ uresp' = 200

AddressPutKeepsAbsent ==
    AddressPutApplied =>
        \A before \in addresses : before.id = alocal["p1"].id =>
            \E after \in addresses' :
                after.id = before.id /\ AbsentFieldsKept(alocal["p1"].json, before, after)

DocumentPutKeepsAbsent ==
    TablePutApplied("documents") =>
        \A before \in documents : before.id = ureq'.id =>
            \E after \in documents' :
                after.id = before.id /\ AbsentFieldsKept(ureq'.json, before, after)

FundPutKeepsAbsent ==
    TablePutApplied("funds") =>
        \A before \in funds : before.id = ureq'.id =>
            \E after \in funds' :
                after.id = before.id /\ AbsentFieldsKept(ureq'.json, before, after)

\* C6: a successful PUT to the address, identity-document and mutual-fund endpoints leaves
\* every field absent from the payload at its stored value, among them a non-null address
\* toDate, document issueDate / expiryDate and fund currentNAV.
C6_AbsentFieldsKeepStoredValue ==
    [][AddressPutKeepsAbsent /\ DocumentPutKeepsAbsent /\ FundPutKeepsAbsent]_vars

----------------------------------------------------------------------------
(* Net-worth trend: GET /api/dashboard/net-worth-trend *)

TrendAccounts == {"t1", "t2", "t3", "t4"}
TrendAccountOwner == [a \in TrendAccounts |-> IF a = "t4" THEN "u2" ELSE "u1"]

\* entry.account.assetCategory?.type of the included account; "none" when it has no category
AssetCategoryType ==
    [a \in TrendAccounts \cup {"b1", "b2", "b3", "b4", "b5", "b6"} |->
        CASE a \in {"t2", "b2", "b5"} -> "LIABILITY"
          [] a \in {"t3", "b3"} -> "none"
          [] OTHER -> "ASSET"]

\* first and last day of every month
TrendDates == {m * DaysPerMonth : m \in 0 .. (NumMonths - 1)}
                 \cup {m * DaysPerMonth + DaysPerMonth - 1 : m \in 0 .. (NumMonths - 1)}

TrendEntryUniverse ==
    {[accountId |-> a, userId |-> TrendAccountOwner[a], entryDate |-> d, balanceInBase |-> b] :
        a \in TrendAccounts, d \in TrendDates, b \in {Null, Num(1), Num(2)}}

\* stores of at most MaxTrendEntries entries, at most one per account and date
TrendStores ==
    {S \in {{f[i] : i \in 1 .. MaxTrendEntries} \ {Null} :
               f \in [1 .. MaxTrendEntries -> TrendEntryUniverse \cup {Null}]} :
        \A x, y \in S : (x.accountId = y.accountId /\ x.entryDate = y.entryDate) => x = y}

\* findMany(.. orderBy: {entryDate: 'asc'}); entries of one date come in any order, which
\* the sums below do not depend on
RECURSIVE OrderByEntryDate(_)
OrderByEntryDate(S) ==
    IF S = {} THEN <<>>
    ELSE LET e == CHOOSE x \in S : \A y \in S : x.entryDate <= y.entryDate
         IN  <<e>> \o OrderByEntryDate(S \ {e})

\* as Skipped, but an entry of an uncategorised account is kept
SkippedNullOnly(entry) == entry.balanceInBase = Null

\* entry.balanceInBase === null || !entry.account.assetCategory?.type
Skipped(entry) ==
    entry.balanceInBase = Null \/ AssetCategoryType[entry.accountId] = "none"

\* getUTCFullYear() / getUTCMonth() of the entry date, as one month number
entryMonthKey(entry) == entry.entryDate \div DaysPerMonth

\* new Date(Date.UTC(year, month, 1))
firstOfMonthDate(key) == key * DaysPerMonth

\* one pass of the for loop per entry; monthlyAggregates in insertion order
RECURSIVE Aggregate(_, _)
Aggregate(entries, monthlyAggregates) ==
    IF entries = <<>> THEN monthlyAggregates
    ELSE LET entry == Head(entries)
             key == entryMonthKey(entry)
             type == AssetCategoryType[entry.accountId]
             withKey ==
                 IF \E i \in DOMAIN monthlyAggregates : monthlyAggregates[i].key = key
                 THEN monthlyAggregates
                 ELSE Append(monthlyAggregates,
                             [key |-> key, totalAssets |-> 0, totalLiabilities |-> 0,
                              dateObject |-> firstOfMonthDate(key)])
             balance == entry.balanceInBase.val
             added ==
                 [i \in DOMAIN withKey |->
                     IF withKey[i].key # key THEN withKey[i]
                     ELSE IF type = "ASSET"
                          THEN [withKey[i] EXCEPT !.totalAssets = @ + balance]
                     ELSE IF type = "LIABILITY"
                          THEN [withKey[i] EXCEPT !.totalLiabilities = @ + balance]
                     ELSE withKey[i]]
         IN  IF Skipped(entry) THEN Aggregate(Tail(entries), monthlyAggregates)
             ELSE Aggregate(Tail(entries), added)

\* Object.values(monthlyAggregates).map(agg => ({date, totalAssets, totalLiabilities, netWorth}))
TrendRecords(monthlyAggregates) ==
    [i \in DOMAIN monthlyAggregates |->
        [date |-> monthlyAggregates[i].dateObject,
         totalAssets |-> monthlyAggregates[i].totalAssets,
         totalLiabilities |-> monthlyAggregates[i].totalLiabilities,
         netWorth |-> monthlyAggregates[i].totalAssets
                         - monthlyAggregates[i].totalLiabilities]]

\* trendData.sort((a, b) => new Date(a.date).getTime() - new Date(b.date).getTime())
RECURSIVE SortByDate(_)
SortByDate(records) ==
    IF records = <<>> THEN <<>>
    ELSE LET i == CHOOSE k \in DOMAIN records :
                     /\ \A j \in DOMAIN records : records[k].date <= records[j].date
                     /\ \A j \in 1 .. (k - 1) : records[j].date # records[k].date
             rest == [j \in 1 .. (Len(records) - 1) |->
                         IF j < i THEN records[j] ELSE records[j + 1]]
         IN  <<records[i]>> \o SortByDate(rest)

\* the handler's answer, from the session check to NextResponse.json
TrendResponse(user) ==
    LET entries == OrderByEntryDate({e \in trendEntries : e.userId = user})
    IN  IF user = NoUser THEN [status |-> 401, user |-> user, body |-> <<>>]
        ELSE IF Len(entries) = 0 THEN [status |-> 200, user |-> user, body |-> <<>>]
        ELSE [status |-> 200, user |-> user,
              body |-> SortByDate(TrendRecords(Aggregate(entries, <<>>)))]

TrendGet(user) ==
    /\ trendData.status = 0
    /\ trendData' = TrendResponse(user)
    /\ UNCHANGED <<depositVars, clientVars, trendEntries, balanceVars, addressVars, updateVars, dashVars>>

InitTrend ==
    /\ IdleDeposits /\ IdleClient
    /\ IdleBalance /\ IdleAddress /\ IdleUpdate /\ IdleDash
    /\ trendEntries \in TrendStores
    /\ trendData = [status |-> 0]

NextTrend == \E user \in Sessions : TrendGet(user)

SpecTrend == InitTrend /\ [][NextTrend]_vars

----------------------------------------------------------------------------
(* Claims about the net-worth trend *)

RECURSIVE SumBalances(_)
SumBalances(S) ==
    IF S = {} THEN 0
    ELSE LET e == CHOOSE x \in S : TRUE
         IN  e.balanceInBase.val + SumBalances(S \ {e})

\* the entries of the user that have a base balance and a categorised account
Counted(u) ==
    {e \in trendEntries :
        /\ e.userId = u /\ e.balanceInBase # Null
        /\ AssetCategoryType[e.accountId] # "none"}

CountedIn(u, m, type) ==
    {e \in Counted(u) : MonthOf(e.entryDate) = m /\ AssetCategoryType[e.accountId] = type}

\* C10: the trend response holds exactly one record per month with a counted entry, in
\* strictly ascending date order, each dated the first of its month, with totalAssets and
\* totalLiabilities the sums of balanceInBase over the ASSET and LIABILITY entries of the
\* month and netWorth their difference; entries with a null balanceInBase or an
\* uncategorised account add nothing, and without entries the response is an empty series.
C10_TrendPerMonth ==
    \A u \in Users :
        (trendData.status # 0 /\ trendData.user = u) =>
            LET body == trendData.body
                months == {MonthOf(e.entryDate) : e \in Counted(u)}
            IN  /\ trendData.status = 200
                /\ Len(body) = Cardinality(months)
                /\ \A i, j \in DOMAIN body : i < j => body[i].date < body[j].date
                /\ \A m \in months :
                      \E i \in DOMAIN body :
                         /\ body[i].date = m * DaysPerMonth
                         /\ body[i].totalAssets = SumBalances(CountedIn(u, m, "ASSET"))
                         /\ body[i].totalLiabilities =
                               SumBalances(CountedIn(u, m, "LIABILITY"))
                         /\ body[i].netWorth =
                               body[i].totalAssets - body[i].totalLiabilities

\* a month whose liabilities exceed its assets, answered with a negative net worth
C10_Witness ==
    /\ trendData.status = 200 /\ Len(trendData.body) = 1
    /\ trendData.body[1].totalAssets = 1
    /\ trendData.body[1].totalLiabilities = 2
    /\ trendData.body[1].netWorth = -1

----------------------------------------------------------------------------
(* Category breakdown: GET /api/dashboard/category-breakdown-trend *)

BreakdownAccounts == {"b1", "b2", "b3", "b4", "b5", "b6"}
BreakdownAccountOwner == [a \in BreakdownAccounts |-> IF a = "b6" THEN "u2" ELSE "u1"]

\* entry.account.assetCategory?.name of the included account; Absent without a category
AssetCategoryName ==
    [a \in BreakdownAccounts \cup TrendAccounts |->
        CASE a \in {"b1", "t1", "t4"} -> Str("Bank")
          [] a \in {"b2", "t2"} -> Str("Loan")
          [] a \in {"b3", "t3"} -> Absent
          [] a = "b4" -> Str("date")
          [] a = "b5" -> Str("dateObject")
          [] OTHER -> Str("Bank")]

\* the category names in use, in the order of Array.prototype.sort() (UTF-16 code units)
CategoryNameOrder == <<"Bank", "Loan", "date", "dateObject">>

BreakdownEntryUniverse ==
    {[accountId |-> a, userId |-> BreakdownAccountOwner[a], entryDate |-> d,
      balanceInBase |-> b] :
        a \in BreakdownAccounts, d \in TrendDates, b \in {Null, Num(1), Num(2)}}

BreakdownStores ==
    {S \in {{f[i] : i \in 1 .. MaxTrendEntries} \ {Null} :
               f \in [1 .. MaxTrendEntries -> BreakdownEntryUniverse \cup {Null}]} :
        \A x, y \in S : (x.accountId = y.accountId /\ x.entryDate = y.entryDate) => x = y}

\* obj[key] of a plain object held as a function from its own keys
Property(obj, key) == IF key \in DOMAIN obj THEN obj[key] ELSE Absent

\* obj[key] = value
SetProperty(obj, key, value) ==
    [k \in DOMAIN obj \cup {key} |-> IF k = key THEN value ELSE obj[k]]

\* entry.balanceInBase === null || !entry.account.assetCategory?.name
BreakdownSkipped(entry) ==
    entry.balanceInBase = Null \/ AssetCategoryName[entry.accountId] = Absent

\* one pass of the for loop per entry. The state is the aggregates in insertion order
\* (each a month key and the object stored under it), allCategoryNames, and whether a
\* statement threw: `(x as Decimal || new Decimal(0)).plus(..)` throws a TypeError when x
\* is the Date stored under dateObject.
RECURSIVE CategoryAggregate(_, _)
CategoryAggregate(entries, st) ==
    IF entries = <<>> \/ st.threw THEN st
    ELSE LET entry == Head(entries)
             key == entryMonthKey(entry)
             categoryName == AssetCategoryName[entry.accountId].val
             aggs == st.monthlyCategoryAggregates
             withKey ==
                 IF \E i \in DOMAIN aggs : aggs[i].key = key THEN aggs
                 ELSE Append(aggs, [key |-> key,
                                    obj |-> [k \in {"dateObject"} |->
                                                DateVal(firstOfMonthDate(key))]])
             i == CHOOSE j \in DOMAIN withKey : withKey[j].key = key
             stored == Property(withKey[i].obj, categoryName)
             currentCategoryBalance == IF stored = Absent THEN Num(0) ELSE stored
         IN  IF BreakdownSkipped(entry) THEN CategoryAggregate(Tail(entries), st)
             ELSE IF ~IsNum(currentCategoryBalance)
                  THEN [st EXCEPT !.threw = TRUE,
                                  !.allCategoryNames = @ \cup {categoryName},
                                  !.monthlyCategoryAggregates = withKey]
             ELSE CategoryAggregate(Tail(entries),
                     [threw |-> FALSE,
                      allCategoryNames |-> st.allCategoryNames \cup {categoryName},
                      monthlyCategoryAggregates |->
                         [withKey EXCEPT ![i].obj =
                             SetProperty(@, categoryName,
                                 Num(currentCategoryBalance.val + entry.balanceInBase.val))]])

\* Array.from(allCategoryNames).sort()
SortedNames(names) == SelectSeq(CategoryNameOrder, LAMBDA n : n \in names)

\* the record of one month: date first, then one assignment per sorted category name
RECURSIVE FillRecord(_, _, _)
FillRecord(record, monthlyData, names) ==
    IF names = <<>> THEN record
    ELSE LET catName == Head(names)
             balance == Property(monthlyData, catName)
         IN  FillRecord(SetProperty(record, catName,
                                    IF balance = Absent THEN Num(0) ELSE balance),
                        monthlyData, Tail(names))

BreakdownRecords(aggs, names) ==
    [i \in DOMAIN aggs |->
        FillRecord([k \in {"date"} |-> aggs[i].obj["dateObject"]], aggs[i].obj, names)]

\* new Date(a.date).getTime(): a number is taken as milliseconds since the epoch
getTime(v) ==
    CASE v.kind = "date" -> v.val * 86400000
      [] OTHER -> v.val

\* trendData.sort((a, b) => new Date(a.date).getTime() - new Date(b.date).getTime())
RECURSIVE SortRecordsByTime(_)
SortRecordsByTime(records) ==
    IF records = <<>> THEN <<>>
    ELSE LET i == CHOOSE k \in DOMAIN records :
                     /\ \A j \in DOMAIN records :
                           getTime(records[k]["date"]) <= getTime(records[j]["date"])
                     /\ \A j \in 1 .. (k - 1) :
                           getTime(records[j]["date"]) # getTime(records[k]["date"])
             rest == [j \in 1 .. (Len(records) - 1) |->
                         IF j < i THEN records[j] ELSE records[j + 1]]
         IN  <<records[i]>> \o SortRecordsByTime(rest)

\* the handler's answer, from the session check to NextResponse.json
BreakdownResponse(user) ==
    LET entries == OrderByEntryDate({e \in trendEntries : e.userId = user})
        st == CategoryAggregate(entries,
                 [threw |-> FALSE, allCategoryNames |-> {},
                  monthlyCategoryAggregates |-> <<>>])
        sortedCategoryNamesArray == SortedNames(st.allCategoryNames)
    IN  IF user = NoUser THEN [status |-> 401, user |-> user]
        ELSE IF Len(entries) = 0
             THEN [status |-> 200, user |-> user, trendData |-> <<>>,
                   categories |-> <<>>]
        ELSE IF st.threw THEN [status |-> 500, user |-> user]
        ELSE [status |-> 200, user |-> user,
              trendData |-> SortRecordsByTime(
                  BreakdownRecords(st.monthlyCategoryAggregates,
                                   sortedCategoryNamesArray)),
              categories |-> sortedCategoryNamesArray]

BreakdownGet(user) ==
    /\ trendData.status = 0
    /\ trendData' = BreakdownResponse(user)
    /\ UNCHANGED <<depositVars, clientVars, trendEntries, balanceVars, addressVars, updateVars, dashVars>>

InitBreakdown ==
    /\ IdleDeposits /\ IdleClient
    /\ IdleBalance /\ IdleAddress /\ IdleUpdate /\ IdleDash
    /\ trendEntries \in BreakdownStores
    /\ trendData = [status |-> 0]

NextBreakdown == \E user \in Sessions : BreakdownGet(user)

SpecBreakdown == InitBreakdown /\ [][NextBreakdown]_vars

\* the entries of the user that are not discarded
BreakdownCounted(u) ==
    {e \in trendEntries : e.userId = u /\ ~BreakdownSkipped(e)}

BreakdownIn(u, m, name) ==
    {e \in BreakdownCounted(u) :
        MonthOf(e.entryDate) = m /\ AssetCategoryName[e.accountId] = Str(name)}

\* C11: the category-breakdown response is 200 with categories the sorted duplicate-free
\* names of the non-discarded entries and a trendData series in ascending month order, one
\* record per month, each dated the first of its month and carrying for every name in
\* categories the sum of balanceInBase of the month's entries of that category, 0 when
\* there is none, whatever the category names are.
C11_BreakdownPerCategory ==
    \A u \in Users :
        (trendData.status # 0 /\ trendData.user = u) =>
            LET names == {AssetCategoryName[e.accountId].val : e \in BreakdownCounted(u)}
                months == {MonthOf(e.entryDate) : e \in BreakdownCounted(u)}
            IN  /\ trendData.status = 200
                /\ trendData.categories = SortedNames(names)
                /\ Len(trendData.trendData) = Cardinality(months)
                /\ \A i \in DOMAIN trendData.trendData :
                      LET record == trendData.trendData[i]
                      IN  /\ record["date"].kind = "date"
                          /\ \A j \in DOMAIN trendData.trendData :
                                i < j => record["date"].val
                                            < trendData.trendData[j]["date"].val
                          /\ \E m \in months :
                                /\ record["date"].val = m * DaysPerMonth
                                /\ \A n \in names :
                                      /\ n \in DOMAIN record
                                      /\ n # "date" =>
                                            record[n] = Num(SumBalances(BreakdownIn(u, m, n)))

\* as C11, for stores whose category names are neither "date" nor "dateObject"
C11_OrdinaryNames ==
    (\A e \in trendEntries : AssetCategoryName[e.accountId] \notin {Str("date"), Str("dateObject")})
        => C11_BreakdownPerCategory

----------------------------------------------------------------------------
(* Net-worth summary: GET /api/dashboard/net-worth-summary *)

DefaultCategories ==
    {[id |-> "c1", name |-> "Bank", type |-> "ASSET", parentCategoryId |-> Null],
     [id |-> "c2", name |-> "Loan", type |-> "LIABILITY", parentCategoryId |-> Null]}

\* account s1 of u1 always exists, s2 of u1 may, s3 belongs to u2
SummaryAccountSets ==
    {{[id |-> "s1", userId |-> "u1", assetCategoryId |-> c1, linkedAddressId |-> Null],
      [id |-> "s3", userId |-> "u2", assetCategoryId |-> Str("c1"),
       linkedAddressId |-> Null]} \cup s2 :
        c1 \in {Str("c1"), Str("c2"), Null},
        s2 \in {{}} \cup {{[id |-> "s2", userId |-> "u1", assetCategoryId |-> c2,
                              linkedAddressId |-> Null]} :
                            c2 \in {Str("c1"), Str("c2"), Null}}}

SummaryAccountOwner == [a \in {"s1", "s2", "s3"} |-> IF a = "s3" THEN "u2" ELSE "u1"]

\* entries as POST stores them: dated the first of a month
SummaryEntryUniverse ==
    {[accountId |-> a, userId |-> SummaryAccountOwner[a], entryDate |-> m * DaysPerMonth,
      balanceInBase |-> b] :
        a \in {"s1", "s2", "s3"}, m \in 0 .. (NumMonths - 1), b \in {Null, Num(1), Num(2)}}

SummaryStores ==
    {S \in {{f[i] : i \in 1 .. MaxTrendEntries} \ {Null} :
               f \in [1 .. MaxTrendEntries -> SummaryEntryUniverse \cup {Null}]} :
        \A x, y \in S : (x.accountId = y.accountId /\ x.entryDate = y.entryDate) => x = y}

\* include: {assetCategory: {select: {type: true}}}; "none" stands for a null category
IncludedCategoryType(account, cats) ==
    IF \E c \in cats : Str(c.id) = account.assetCategoryId
    THEN (CHOOSE c \in cats : Str(c.id) = account.assetCategoryId).type
    ELSE "none"

\* as LatestBalanceEntries, but ordered by entryDate ascending
EarliestBalanceEntries(account, entries) ==
    {e \in entries : e.accountId = account.id
                       /\ \A o \in entries : o.accountId = account.id => e.entryDate <= o.entryDate}

\* include: {balanceEntries: {orderBy: {entryDate: 'desc'}, take: 1}}: empty or one entry
LatestBalanceEntries(account, entries) ==
    {e \in entries : e.accountId = account.id
                       /\ \A o \in entries : o.accountId = account.id => o.entryDate <= e.entryDate}

\* one pass of the for loop per account; the query has no orderBy and the sums, the
\* count and the greatest date do not depend on the order
RECURSIVE SummaryLoop(_, _, _, _)
SummaryLoop(todo, cats, entries, acc) ==
    IF todo = {} THEN acc
    ELSE LET account == CHOOSE a \in todo : TRUE
             balanceEntriesOf == LatestBalanceEntries(account, entries)
             type == IncludedCategoryType(account, cats)
         IN  IF balanceEntriesOf = {}
             THEN SummaryLoop(todo \ {account}, cats, entries, acc)
             ELSE LET latestBalance == CHOOSE e \in balanceEntriesOf : TRUE
                      balanceValue == latestBalance.balanceInBase
                  IN  IF balanceValue = Null
                      THEN SummaryLoop(todo \ {account}, cats, entries, acc)
                      ELSE SummaryLoop(todo \ {account}, cats, entries,
                              [totalAssets |->
                                  IF type = "ASSET" THEN acc.totalAssets + balanceValue.val
                                  ELSE acc.totalAssets,
                               totalLiabilities |->
                                  IF type = "LIABILITY"
                                  THEN acc.totalLiabilities + balanceValue.val
                                  ELSE acc.totalLiabilities,
                               lastUpdatedDate |->
                                  IF acc.lastUpdatedDate = Null
                                     \/ latestBalance.entryDate > acc.lastUpdatedDate.val
                                  THEN DateVal(latestBalance.entryDate)
                                  ELSE acc.lastUpdatedDate,
                               accountsUsedInCalculation |->
                                  acc.accountsUsedInCalculation + 1])

\* the response body of the summary for the stored rows given
NetWorthSummary(user, accts, cats, entries) ==
    LET found == {a \in accts : a.userId = user}
        acc == SummaryLoop(found, cats, entries,
                  [totalAssets |-> 0, totalLiabilities |-> 0, lastUpdatedDate |-> Null,
                   accountsUsedInCalculation |-> 0])
    IN  [totalAssets |-> acc.totalAssets,
         totalLiabilities |-> acc.totalLiabilities,
         netWorth |-> acc.totalAssets - acc.totalLiabilities,
         lastUpdatedDate |-> acc.lastUpdatedDate,
         accountsConsidered |-> Cardinality(found),
         accountsWithBalancesCounted |-> acc.accountsUsedInCalculation]

SummaryGet(user) ==
    /\ trendData.status = 0
    /\ trendData' =
          IF user = NoUser THEN [status |-> 401, user |-> user]
          ELSE [status |-> 200, user |-> user,
                body |-> NetWorthSummary(user, accounts, categories, trendEntries)]
    /\ UNCHANGED <<depositVars, clientVars, trendEntries, accounts, categories, widget, response, balanceVars,
                   addressVars, updateVars>>

InitSummary ==
    /\ IdleDeposits /\ IdleClient
    /\ IdleBalance /\ IdleAddress /\ IdleUpdate
    /\ categories = DefaultCategories
    /\ accounts \in SummaryAccountSets
    /\ trendEntries \in {S \in SummaryStores :
                            \A e \in S : \E a \in accounts : a.id = e.accountId}
    /\ trendData = [status |-> 0]
    /\ widget = [state |-> "unmounted"]
    /\ response = NoResponse

NextSummary == \E user \in Sessions : SummaryGet(user)

SpecSummary == InitSummary /\ [][NextSummary]_vars

----------------------------------------------------------------------------
(* Claims about the net-worth summary *)

SummaryDone(u) == trendData.status = 200 /\ trendData.user = u

\* the balance of the entry with the greatest entryDate of each account in S, summed
RECURSIVE SumLatest(_)
SumLatest(S) ==
    IF S = {} THEN 0
    ELSE LET a == CHOOSE x \in S : TRUE
             latest == {e \in trendEntries :
                          /\ e.accountId = a.id
                          /\ ~\E o \in trendEntries :
                                 o.accountId = a.id /\ o.entryDate > e.entryDate}
             value == IF latest = {} THEN 0
                      ELSE LET b == (CHOOSE e \in latest : TRUE).balanceInBase
                           IN  IF b = Null THEN 0 ELSE b.val
         IN  value + SumLatest(S \ {a})

AccountsOfType(u, type) ==
    {a \in accounts : a.userId = u /\ IncludedCategoryType(a, categories) = type}

\* entries of the user's accounts that are not the latest of their account
OlderEntries(u) ==
    {e \in trendEntries :
        /\ \E a \in accounts : a.userId = u /\ a.id = e.accountId
        /\ \E o \in trendEntries : o.accountId = e.accountId /\ o.entryDate > e.entryDate}

Totals(body) == <<body.totalAssets, body.totalLiabilities, body.netWorth>>

\* C12: the summary totals are the sums of the latest balanceInBase of the user's ASSET and
\* LIABILITY accounts, netWorth is their difference, and the totals are the same when an
\* older entry of an account is deleted or carries another balance.
C12_SummaryUsesLatestEntry ==
    \A u \in Users :
        SummaryDone(u) =>
            LET body == trendData.body
            IN  /\ body.totalAssets = SumLatest(AccountsOfType(u, "ASSET"))
                /\ body.totalLiabilities = SumLatest(AccountsOfType(u, "LIABILITY"))
                /\ body.netWorth = body.totalAssets - body.totalLiabilities
                /\ \A e \in OlderEntries(u) :
                      /\ Totals(NetWorthSummary(u, accounts, categories, trendEntries \ {e}))
                            = Totals(body)
                      /\ \A b \in {Null, Num(1), Num(2)} :
                            Totals(NetWorthSummary(u, accounts, categories,
                                      (trendEntries \ {e}) \cup {[e EXCEPT !.balanceInBase = b]}))
                               = Totals(body)

\* an asset account with an older balance of 2 and a latest balance of 1 is reported as 1
C12_Witness ==
    /\ SummaryDone("u1")
    /\ \E e \in OlderEntries("u1") : e.balanceInBase = Num(2)
    /\ trendData.body.totalAssets = 1
    /\ trendData.body.netWorth = 1

\* accounts of the user that have a balance entry and a category
NotExcluded(u) ==
    {a \in accounts :
        /\ a.userId = u
        /\ \E e \in trendEntries : e.accountId = a.id
        /\ IncludedCategoryType(a, categories) # "none"}

\* C13: accountsConsidered is the number of the user's accounts, and
\* accountsWithBalancesCounted counts no account without a balance entry and no account
\* without a category.
C13_CountsExcludeUncategorised ==
    \A u \in Users :
        SummaryDone(u) =>
            /\ trendData.body.accountsConsidered =
                  Cardinality({a \in accounts : a.userId = u})
            /\ trendData.body.accountsWithBalancesCounted <= Cardinality(NotExcluded(u))

\* what the handler counts: accounts whose latest entry has a balance, categorised or not
C13_CountsLatestWithBalance ==
    \A u \in Users :
        SummaryDone(u) =>
            trendData.body.accountsWithBalancesCounted =
                Cardinality({a \in accounts :
                    /\ a.userId = u
                    /\ \E e \in LatestBalanceEntries(a, trendEntries) :
                          e.balanceInBase # Null})

----------------------------------------------------------------------------
(* NetWorthTrendWidget: the component that fetches /api/dashboard/net-worth-trend *)

\* a JSON array held by a component
Array(a) == [kind |-> "array", val |-> a]

\* useState initial values; fetchData has not run yet
WidgetMounted ==
    [state |-> "mounted", chartData |-> Array(<<>>), isLoading |-> TRUE, error |-> Null]

\* array[key] for a key that is no index: only length is a property of a JSON array
ArrayProperty(array, key) == IF key = "length" THEN Num(Len(array)) ELSE Absent

\* setIsLoading(true); setError(null); the request leaves
WidgetFetchData ==
    /\ widget.state = "mounted"
    /\ widget' = [widget EXCEPT !.state = "fetching", !.isLoading = TRUE, !.error = Null]
    /\ trendData' = [status |-> 0]
    /\ UNCHANGED <<depositVars, clientVars, trendEntries, accounts, categories, response, balanceVars, addressVars,
                   updateVars>>

\* the endpoint answers the request of the widget
WidgetRequestServed(user) == widget.state = "fetching" /\ TrendGet(user)

\* the rest of fetchData once the response is there, through the finally block
WidgetResponse ==
    /\ widget.state = "fetching" /\ trendData.status # 0
    /\ widget' =
          IF trendData.status # 200
          THEN [widget EXCEPT !.state = "settled", !.isLoading = FALSE,
                              !.error = Str("Unauthorized")]
          ELSE [widget EXCEPT !.state = "settled", !.isLoading = FALSE,
                              !.chartData = ArrayProperty(trendData.body, "trendData")]
    /\ UNCHANGED <<depositVars, clientVars, trendEntries, trendData, accounts, categories, response, balanceVars,
                   addressVars, updateVars>>

\* which of the four returns of the component renders
Rendered ==
    IF widget.isLoading THEN "loading"
    ELSE IF widget.error # Null THEN "error"
    ELSE IF widget.chartData = Absent \/ widget.chartData = Array(<<>>) THEN "no data"
    ELSE "chart"

\* the "Try Again" button of the error card
WidgetTryAgain ==
    /\ widget.state = "settled" /\ Rendered = "error"
    /\ widget' = [widget EXCEPT !.state = "fetching", !.isLoading = TRUE, !.error = Null]
    /\ trendData' = [status |-> 0]
    /\ UNCHANGED <<depositVars, clientVars, trendEntries, accounts, categories, response, balanceVars, addressVars,
                   updateVars>>

InitWidget ==
    /\ IdleDeposits /\ IdleClient
    /\ IdleBalance /\ IdleAddress /\ IdleUpdate
    /\ accounts = {} /\ categories = {}
    /\ trendEntries \in TrendStores
    /\ trendData = [status |-> 0]
    /\ widget = WidgetMounted
    /\ response = NoResponse

NextWidget ==
    \/ WidgetFetchData
    \/ \E user \in Sessions : WidgetRequestServed(user)
    \/ WidgetResponse
    \/ WidgetTryAgain

SpecWidget == InitWidget /\ [][NextWidget]_vars

\* C14: whenever the net-worth trend endpoint answered 200 with a non-empty series, the
\* widget ends with chartData equal to that series and renders the chart, not its
\* 'no data' or error card.
C14_WidgetShowsSeries ==
    (widget.state = "settled" /\ trendData.status = 200 /\ trendData.body # <<>>) =>
        /\ widget.chartData = Array(trendData.body)
        /\ Rendered = "chart"

\* the widget never renders the chart at all
C14_NeverChart == widget.state = "settled" => Rendered \in {"error", "no data"}

----------------------------------------------------------------------------
(* Accounts: /api/accounts and /api/accounts/[id] *)

\* one address of each user, stored before the account requests start
LinkAddresses ==
    {[id |-> 1, userId |-> "u1", line1 |-> "x", fromDate |-> 0, toDate |-> Null,
      isCurrent |-> TRUE],
     [id |-> 2, userId |-> "u2", line1 |-> "y", fromDate |-> 0, toDate |-> Null,
      isCurrent |-> TRUE]}

\* z.string().optional().nullable()
StringNullableOptionalOk(v) == v = Absent \/ v = Null \/ v.kind = "str"

createAccountSchema(json) ==
    IF /\ NonEmptyString(json.nickname)
       /\ StringNullableOptionalOk(json.assetCategoryId)
       /\ StringNullableOptionalOk(json.linkedAddressId)
    THEN json
    ELSE Invalid

updateAccountSchema(json) ==
    IF /\ json.nickname = Absent \/ NonEmptyString(json.nickname)
       /\ StringNullableOptionalOk(json.assetCategoryId)
       /\ StringNullableOptionalOk(json.linkedAddressId)
    THEN json
    ELSE Invalid

\* the foreign keys of Account the handlers answer 400 (P2003) for
AccountForeignKeysOk(row) ==
    /\ row.linkedAddressId = Null \/ \E a \in addresses : Str(a.id) = row.linkedAddressId
    /\ row.assetCategoryId = Null \/ \E c \in categories : Str(c.id) = row.assetCategoryId

\* a column given undefined on create is stored as null
OrNull(v) == IF v = Absent THEN Null ELSE v

ApplyAccountUpdate(row, updateData) ==
    [row EXCEPT
       !.nickname = IF updateData.nickname = Absent THEN @ ELSE updateData.nickname.val,
       !.assetCategoryId =
           IF updateData.assetCategoryId = Absent THEN @ ELSE updateData.assetCategoryId,
       !.linkedAddressId =
           IF updateData.linkedAddressId = Absent THEN @ ELSE updateData.linkedAddressId]

\* include: {assetCategory: {select: {id, name, type}}}
IncludedCategory(account) ==
    IF \E c \in categories : Str(c.id) = account.assetCategoryId
    THEN LET c == CHOOSE x \in categories : Str(x.id) = account.assetCategoryId
         IN  [id |-> c.id, name |-> c.name, type |-> c.type]
    ELSE Null

\* the address row the linkedAddress relation of the account points at
LinkedAddressRow(account) ==
    IF \E a \in addresses : Str(a.id) = account.linkedAddressId
    THEN CHOOSE a \in addresses : Str(a.id) = account.linkedAddressId
    ELSE Null

\* include: {linkedAddress: {select: {id, line1, city, country}}}
SelectedAddress(row) == IF row = Null THEN Null ELSE [id |-> row.id, line1 |-> row.line1]

\* an element of the list response
ListedAccount(account) ==
    [id |-> account.id, userId |-> account.userId, nickname |-> account.nickname,
     assetCategory |-> IncludedCategory(account),
     linkedAddress |-> SelectedAddress(LinkedAddressRow(account))]

\* the item response: include: {linkedAddress: true}
DetailedAccount(account) ==
    [id |-> account.id, userId |-> account.userId, nickname |-> account.nickname,
     assetCategory |-> IncludedCategory(account),
     linkedAddress |-> LinkedAddressRow(account)]

Reply(status, user, body) == [status |-> status, user |-> user, body |-> body]

\* response bodies that are a JSON object or an array of objects
Object(o) == [kind |-> "object", val |-> o]
ObjectList(l) == [kind |-> "list", val |-> l]

AccountPost(user, json) ==
    /\ Cardinality(accounts) < MaxAccounts
    /\ LET data == createAccountSchema(json)
           row == [id |-> FreshId(accounts), userId |-> user,
                   nickname |-> data.nickname.val,
                   assetCategoryId |-> OrNull(data.assetCategoryId),
                   linkedAddressId |-> OrNull(data.linkedAddressId)]
       IN  CASE user = NoUser ->
                  response' = Reply(401, user, Str("Unauthorized")) /\ UNCHANGED accounts
             [] user # NoUser /\ data = Invalid ->
                  response' = Reply(400, user, Str("ZodError")) /\ UNCHANGED accounts
             [] user # NoUser /\ data # Invalid /\ ~AccountForeignKeysOk(row) ->
                  response' = Reply(400, user, Str("Invalid related data")) /\ UNCHANGED accounts
             [] OTHER ->
                  response' = Reply(201, user, Object(row)) /\ accounts' = accounts \cup {row}
    /\ UNCHANGED <<categories, widget, balanceVars, addressVars, updateVars, trendVars, depositVars, clientVars>>

AccountList(user) ==
    /\ response' =
          IF user = NoUser THEN Reply(401, user, Str("Unauthorized"))
          ELSE Reply(200, user,
                     ObjectList({ListedAccount(a) : a \in {x \in accounts : x.userId = user}}))
    /\ UNCHANGED <<accounts, categories, widget, balanceVars, addressVars, updateVars,
                   trendVars, depositVars, clientVars>>

\* as OwnedAccounts, without userId in the where clause
AccountsWithId(accts, user, id) == {a \in accts : a.id = id}

\* where: {id: id, userId: session.user.id}
OwnedAccounts(accts, user, id) == {a \in accts : a.id = id /\ a.userId = user}

\* the response of GET /api/accounts/[id] when the Account table holds accts
AccountGetReply(accts, user, id) ==
    LET found == {a \in accts : a.id = id}
    IN  IF user = NoUser THEN Reply(401, user, Str("Unauthorized"))
        ELSE IF found = {} THEN Reply(404, user, Str("Account not found"))
        ELSE LET account == CHOOSE a \in found : TRUE
             IN  IF account.userId # user
                 THEN Reply(404, user, Str("Account not found"))
                 ELSE Reply(200, user, Object(DetailedAccount(account)))

\* the response of PUT /api/accounts/[id] and the Account table it leaves
AccountPutResult(accts, user, id, json) ==
    LET updateData == updateAccountSchema(json)
        owned == OwnedAccounts(accts, user, id)
    IN  CASE user = NoUser ->
               [reply |-> Reply(401, user, Str("Unauthorized")), accounts |-> accts]
          [] user # NoUser /\ updateData = Invalid ->
               [reply |-> Reply(400, user, Str("ZodError")), accounts |-> accts]
          [] user # NoUser /\ updateData # Invalid /\ owned = {} ->
               [reply |-> Reply(404, user, Str("Account not found or access denied")),
                accounts |-> accts]
          [] OTHER ->
               LET existing == CHOOSE a \in owned : TRUE
                   updated == ApplyAccountUpdate(existing, updateData)
               IN  IF ~AccountForeignKeysOk(updated)
                   THEN [reply |-> Reply(400, user, Str("Invalid related data")),
                         accounts |-> accts]
                   ELSE [reply |-> Reply(200, user, Object(updated)),
                         accounts |-> (accts \ {existing}) \cup {updated}]

\* the response of DELETE /api/accounts/[id] and the Account table it leaves
AccountDeleteResult(accts, user, id) ==
    LET deleted == OwnedAccounts(accts, user, id)
    IN  CASE user = NoUser ->
               [reply |-> Reply(401, user, Str("Unauthorized")), accounts |-> accts]
          [] user # NoUser /\ deleted = {} ->
               [reply |-> Reply(404, user, Str("Account not found or access denied")),
                accounts |-> accts]
          [] OTHER ->
               [reply |-> Reply(200, user, Str("Account deleted successfully")),
                accounts |-> accts \ deleted]

AccountGet(user, id) ==
    /\ response' = AccountGetReply(accounts, user, id)
    /\ UNCHANGED <<accounts, categories, widget, balanceVars, addressVars, updateVars,
                   trendVars, depositVars, clientVars>>

AccountPut(user, id, json) ==
    /\ response' = AccountPutResult(accounts, user, id, json).reply
    /\ accounts' = AccountPutResult(accounts, user, id, json).accounts
    /\ UNCHANGED <<categories, widget, balanceVars, addressVars, updateVars, trendVars, depositVars, clientVars>>

AccountDelete(user, id) ==
    /\ response' = AccountDeleteResult(accounts, user, id).reply
    /\ accounts' = AccountDeleteResult(accounts, user, id).accounts
    /\ UNCHANGED <<categories, widget, balanceVars, addressVars, updateVars, trendVars, depositVars, clientVars>>

AccountBody(nickname, assetCategoryId, linkedAddressId) ==
    [nickname |-> nickname, assetCategoryId |-> assetCategoryId,
     linkedAddressId |-> linkedAddressId]

AccountIds == 1 .. MaxAccounts

AccountPostRequests ==
    {[user |-> u, json |-> AccountBody(Str("n"), Absent, l)] :
        u \in Users, l \in {Absent, Str(1), Str(2), Str(9)}}
    \cup {[user |-> "u1", json |-> AccountBody(Str("n"), Str("c1"), Absent)],
          [user |-> "u1", json |-> AccountBody(Str(""), Absent, Absent)],
          [user |-> NoUser, json |-> AccountBody(Str("n"), Absent, Absent)]}

AccountPutRequests ==
    {[user |-> u, id |-> i, json |-> AccountBody(Absent, Absent, l)] :
        u \in Users, i \in AccountIds, l \in {Absent, Null, Str(1), Str(2), Str(9)}}
    \cup {[user |-> "u1", id |-> 1, json |-> AccountBody(Str(""), Absent, Absent)],
          [user |-> NoUser, id |-> 1, json |-> AccountBody(Absent, Absent, Absent)]}

AccountItemRequests ==
    {[user |-> u, id |-> i] : u \in Users, i \in AccountIds} \cup {[user |-> NoUser, id |-> 1]}

InitLinks ==
    /\ IdleDeposits /\ IdleClient
    /\ IdleBalance /\ IdleUpdate /\ IdleTrend
    /\ addresses = LinkAddresses /\ apc = [q \in Procs |-> "idle"]
    /\ alocal = [q \in Procs |-> [op |-> "none"]] /\ aresp = [q \in Procs |-> 0]
    /\ accounts = {} /\ categories = DefaultCategories
    /\ widget = [state |-> "unmounted"] /\ response = NoResponse

NextLinks ==
    \/ \E r \in AccountPostRequests : AccountPost(r.user, r.json)
    \/ \E u \in Sessions : AccountList(u)
    \/ \E r \in AccountItemRequests : AccountGet(r.user, r.id)
    \/ \E r \in AccountPutRequests : AccountPut(r.user, r.id, r.json)
    \/ \E r \in AccountItemRequests : AccountDelete(r.user, r.id)

SpecLinks == InitLinks /\ [][NextLinks]_vars

\* the address rows a response body carries: the linkedAddress of each account in it
AddressesIn(body) ==
    LET items == CASE body.kind = "list" -> body.val
                   [] body.kind = "object" -> {body.val}
                   [] OTHER -> {}
        including == {x \in items : "linkedAddress" \in DOMAIN x}
    IN  {i.linkedAddress : i \in {x \in including : x.linkedAddress # Null}}

\* C15: no response to a user carries fields of an address owned by another user, also
\* after that user created or updated an account with linkedAddressId set to the id of
\* the other user's address.
C15_NoForeignRecordInResponse ==
    response.status \in {200, 201} =>
        \A linked \in AddressesIn(response.body) :
            \A a \in addresses : a.id = linked.id => a.userId = response.user

\* the accounts that user u does not own
ForeignAccounts(u) == {a \in accounts : a.userId # u}

----------------------------------------------------------------------------
(* Claims about validation in the create and update handlers *)

\* what the schema of the endpoint the answered request went to makes of its body
ParsedBody(req) ==
    CASE req.table = "documents" /\ req.op = "POST" -> createIdentityDocumentSchema(req.json)
      [] req.table = "documents" /\ req.op = "PUT" -> updateIdentityDocumentSchema(req.json)
      [] req.table = "funds" /\ req.op = "POST" -> createMutualFundSchema(req.json)
      [] req.table = "funds" /\ req.op = "PUT" -> updateMutualFundSchema(req.json)

\* a create or update request of a signed-in user has been answered and its body fails
\* the schema
InvalidBodyAnswered ==
    /\ ureq.op \in {"POST", "PUT"}
    /\ ureq.user # NoUser
    /\ ParsedBody(ureq) = Invalid

\* C18: a create or update request whose body fails the endpoint's schema is answered
\* with the validation error (400), the database not having been consulted: the answer
\* does not depend on the stored rows.
C18_InvalidBodyIsValidationError == InvalidBodyAnswered => uresp = 400

\* as C18, for the handlers that parse the body before their first query: all but the
\* identity-document PUT
C18_ParsedBeforeQuery ==
    (InvalidBodyAnswered /\ ~(ureq.table = "documents" /\ ureq.op = "PUT")) => uresp = 400

----------------------------------------------------------------------------
(* Asset categories: PUT and DELETE /api/asset-categories/[id]; the table has no userId
   column and the handlers look a category up by id alone *)

\* the AssetType values the handlers compare account categories with
AssetType == {"ASSET", "LIABILITY"}

\* name: z.string().min(1).optional(), type: z.nativeEnum(AssetType).optional(),
\* parentCategoryId: z.string().nullable().optional().transform(val => val === "" ? null : val)
updateAssetCategorySchema(json) ==
    IF /\ json.name = Absent \/ NonEmptyString(json.name)
       /\ json.type = Absent \/ (json.type.kind = "str" /\ json.type.val \in AssetType)
       /\ StringNullableOptionalOk(json.parentCategoryId)
    THEN [json EXCEPT !.parentCategoryId = IF @ = Str("") THEN Null ELSE @]
    ELSE Invalid

\* data: {name, type, parentCategoryId}, undefined leaving the column alone
ApplyCategoryUpdate(row, data) ==
    [row EXCEPT
       !.name = IF data.name = Absent THEN @ ELSE data.name.val,
       !.type = IF data.type = Absent THEN @ ELSE data.type.val,
       !.parentCategoryId = IF data.parentCategoryId = Absent THEN @ ELSE data.parentCategoryId]

\* P2002: another category already has the name
CategoryNameTaken(id, data) ==
    data.name # Absent /\ \E c \in categories : c.id # id /\ c.name = data.name.val

\* P2003 on parentCategoryId: the parent named does not exist
CategoryParentMissing(data) ==
    /\ data.parentCategoryId \notin {Absent, Null}
    /\ \A c \in categories : Str(c.id) # data.parentCategoryId

\* P2003 on delete: the category is in use by an account (RESTRICT)
CategoryInUse(id) == \E a \in accounts : a.assetCategoryId = Str(id)

CategoryPut(user, id, json) ==
    LET data == updateAssetCategorySchema(json)
        found == {c \in categories : c.id = id}
    IN  /\ trendData.status = 0
        /\ IF user = NoUser
           THEN /\ response' = Reply(401, user, Str("Unauthorized"))
                /\ UNCHANGED categories
           ELSE IF data = Invalid
           THEN /\ response' = Reply(400, user, Str("ZodError"))
                /\ UNCHANGED categories
           ELSE IF data.parentCategoryId \notin {Absent, Null, Str("")}
                   /\ data.parentCategoryId = Str(id)
           THEN /\ response' = Reply(400, user, Str("A category cannot be its own parent."))
                /\ UNCHANGED categories
           ELSE IF found = {}
           THEN /\ response' = Reply(404, user, Str("Asset category not found"))
                /\ UNCHANGED categories
           ELSE IF CategoryNameTaken(id, data)
           THEN /\ response' = Reply(409, user,
                                     Str("An asset category with this name already exists."))
                /\ UNCHANGED categories
           ELSE IF CategoryParentMissing(data)
           THEN /\ response' = Reply(400, user, Str("Invalid Parent Category ID provided."))
                /\ UNCHANGED categories
           ELSE LET row == CHOOSE c \in found : TRUE
                    updatedAssetCategory == ApplyCategoryUpdate(row, data)
                IN  /\ categories' = (categories \ {row}) \cup {updatedAssetCategory}
                    /\ response' = Reply(200, user, Object(updatedAssetCategory))
        /\ UNCHANGED <<accounts, widget, trendVars, depositVars, clientVars, balanceVars, addressVars, updateVars>>

\* as CategoryDelete, without the session check
CategoryDeleteUnchecked(user, id) ==
    LET subCategoriesCount == Cardinality({c \in categories : c.parentCategoryId = Str(id)})
        found == {c \in categories : c.id = id}
    IN  /\ trendData.status = 0
        /\ IF subCategoriesCount > 0
           THEN /\ response' = Reply(400, user, Str("Cannot delete category: it is a parent"))
                /\ UNCHANGED categories
           ELSE IF found = {}
           THEN /\ response' = Reply(404, user, Str("Asset category not found"))
                /\ UNCHANGED categories
           ELSE IF CategoryInUse(id)
           THEN /\ response' = Reply(400, user, Str("Cannot delete category: it is in use"))
                /\ UNCHANGED categories
           ELSE /\ categories' = categories \ found
                /\ response' = Reply(200, user, Str("Asset category deleted successfully"))
        /\ UNCHANGED <<accounts, widget, trendVars, depositVars, clientVars, balanceVars, addressVars, updateVars>>

CategoryDelete(user, id) ==
    LET subCategoriesCount == Cardinality({c \in categories : c.parentCategoryId = Str(id)})
        found == {c \in categories : c.id = id}
    IN  /\ trendData.status = 0
        /\ IF user = NoUser
           THEN /\ response' = Reply(401, user, Str("Unauthorized"))
                /\ UNCHANGED categories
           ELSE IF subCategoriesCount > 0
           THEN /\ response' = Reply(400, user, Str("Cannot delete category: it is a parent"))
                /\ UNCHANGED categories
           ELSE IF found = {}
           THEN /\ response' = Reply(404, user, Str("Asset category not found"))
                /\ UNCHANGED categories
           ELSE IF CategoryInUse(id)
           THEN /\ response' = Reply(400, user, Str("Cannot delete category: it is in use"))
                /\ UNCHANGED categories
           ELSE /\ categories' = categories \ found
                /\ response' = Reply(200, user, Str("Asset category deleted successfully"))
        /\ UNCHANGED <<accounts, widget, trendVars, depositVars, clientVars, balanceVars, addressVars, updateVars>>

\* the categories before the requests: c3 is a sub-category of c1 that no account uses
SharedCategories ==
    DefaultCategories
        \cup {[id |-> "c3", name |-> "Cash", type |-> "ASSET", parentCategoryId |-> Str("c1")]}

CategoryIds == {"c1", "c2", "c3", "c9"}

CategoryBody ==
    [name : {Absent, Str(""), Str("Loan")},
     type : {Absent, Str("LIABILITY"), Str("ASSET"), Str("OTHER")},
     parentCategoryId : {Absent, Null, Str("c1"), Str("c9")}]

\* u1 and a caller without a session send the category requests; u2 only reads its summary
CategoryCallers == {"u1", NoUser}

InitShared ==
    /\ IdleDeposits /\ IdleClient
    /\ IdleBalance /\ IdleAddress /\ IdleUpdate
    /\ categories = SharedCategories
    /\ accounts = {[id |-> "s1", userId |-> "u1", assetCategoryId |-> Str("c1"),
                    linkedAddressId |-> Null],
                   [id |-> "s3", userId |-> "u2", assetCategoryId |-> Str("c1"),
                    linkedAddressId |-> Null]}
    /\ trendEntries \in {S \in SummaryStores : \A e \in S : e.accountId = "s3"}
    /\ trendData = [status |-> 0]
    /\ widget = [state |-> "unmounted"]
    /\ response = NoResponse

NextShared ==
    \/ \E user \in CategoryCallers, id \in CategoryIds, json \in CategoryBody :
          CategoryPut(user, id, json)
    \/ \E user \in CategoryCallers, id \in CategoryIds : CategoryDelete(user, id)
    \/ SummaryGet("u2")

SpecShared == InitShared /\ [][NextShared]_vars

\* C16: requests of another user change no response of a user: the net-worth summary u2
\* receives after any PUT and DELETE requests of u1 on asset categories is the summary u2
\* receives without them.
C16_SummaryUnaffectedByOthers ==
    SummaryDone("u2") =>
        trendData.body = NetWorthSummary("u2", accounts, SharedCategories, trendEntries)

\* as C16, while no category request has been answered 200
C16_UnchangedCategories ==
    categories = SharedCategories => C16_SummaryUnaffectedByOthers

----------------------------------------------------------------------------
(* Fixed deposits: POST /api/fixed-deposits, PUT and DELETE /api/fixed-deposits/[id] *)

\* new Date(arg) of a string that is no date
InvalidDate == [kind |-> "invalid date"]

\* create: (arg) => typeof arg == "string" || arg instanceof Date ? new Date(arg) : undefined
PreDepositDate(v) ==
    CASE v.kind = "date" -> v
      [] v.kind = "str" -> InvalidDate
      [] OTHER -> Absent

\* update: "", null and undefined become undefined before the rule of PreDepositDate
PreDepositDateOptional(v) ==
    IF v = Str("") \/ v = Null \/ v = Absent THEN Absent ELSE PreDepositDate(v)

\* as MaturityNotAfterStart, but equal dates pass
MaturityBeforeStart(startDate, maturityDate) == maturityDate < startDate

\* maturityDate <= startDate
MaturityNotAfterStart(startDate, maturityDate) == maturityDate <= startDate

createFixedDepositSchema(json) ==
    LET startDate == PreDepositDate(json.startDate)
        maturityDate == PreDepositDate(json.maturityDate)
    IN  IF /\ NonEmptyString(json.bankName)
           /\ startDate.kind = "date"
           /\ maturityDate.kind = "date"
        THEN [bankName |-> json.bankName.val, startDate |-> startDate.val,
              maturityDate |-> maturityDate.val]
        ELSE Invalid

\* the object schema, then the refine on payloads that carry both dates
updateFixedDepositSchema(json) ==
    LET startDate == PreDepositDateOptional(json.startDate)
        maturityDate == PreDepositDateOptional(json.maturityDate)
    IN  IF /\ json.bankName = Absent \/ NonEmptyString(json.bankName)
           /\ startDate.kind \in {"undefined", "date"}
           /\ maturityDate.kind \in {"undefined", "date"}
           /\ (startDate.kind = "date" /\ maturityDate.kind = "date")
                 => maturityDate.val > startDate.val
        THEN [bankName |-> json.bankName, startDate |-> startDate,
              maturityDate |-> maturityDate]
        ELSE Invalid

\* data.startDate || existingFixedDeposit.startDate: a Date object is truthy
OrExisting(given, existing) == IF given = Absent THEN existing ELSE given.val

ApplyDepositUpdate(row, updateData) ==
    [row EXCEPT
       !.bankName = IF updateData.bankName = Absent THEN @ ELSE updateData.bankName.val,
       !.startDate = IF updateData.startDate = Absent THEN @ ELSE updateData.startDate.val,
       !.maturityDate =
           IF updateData.maturityDate = Absent THEN @ ELSE updateData.maturityDate.val]

DepositPost(user, json) ==
    /\ Cardinality(fixedDeposits) < MaxDeposits
    /\ LET data == createFixedDepositSchema(json)
           row == [id |-> FreshId(fixedDeposits), userId |-> user,
                   bankName |-> data.bankName, startDate |-> data.startDate,
                   maturityDate |-> data.maturityDate]
       IN  CASE user = NoUser ->
                  response' = Reply(401, user, Str("Unauthorized"))
                  /\ UNCHANGED fixedDeposits
             [] user # NoUser /\ data = Invalid ->
                  response' = Reply(400, user, Str("ZodError")) /\ UNCHANGED fixedDeposits
             [] user # NoUser /\ data # Invalid
                   /\ MaturityNotAfterStart(data.startDate, data.maturityDate) ->
                  response' = Reply(400, user, Str("Maturity date must be after start date."))
                  /\ UNCHANGED fixedDeposits
             [] OTHER ->
                  response' = Reply(201, user, Object(row))
                  /\ fixedDeposits' = fixedDeposits \cup {row}
    /\ UNCHANGED <<accounts, categories, widget, balanceVars, addressVars, updateVars,
                   trendVars, clientVars>>

DepositPut(user, id, json) ==
    /\ LET data == updateFixedDepositSchema(json)
           found == {d \in fixedDeposits : d.id = id /\ d.userId = user}
       IN  CASE user = NoUser ->
                  response' = Reply(401, user, Str("Unauthorized"))
                  /\ UNCHANGED fixedDeposits
             [] user # NoUser /\ data = Invalid ->
                  response' = Reply(400, user, Str("ZodError")) /\ UNCHANGED fixedDeposits
             [] user # NoUser /\ data # Invalid /\ found = {} ->
                  response' = Reply(404, user, Str("Fixed deposit not found or access denied"))
                  /\ UNCHANGED fixedDeposits
             [] OTHER ->
                  LET existingFixedDeposit == CHOOSE d \in found : TRUE
                      finalStartDate == OrExisting(data.startDate,
                                                   existingFixedDeposit.startDate)
                      finalMaturityDate == OrExisting(data.maturityDate,
                                                      existingFixedDeposit.maturityDate)
                      updatedFixedDeposit == ApplyDepositUpdate(existingFixedDeposit, data)
                  IN  IF MaturityNotAfterStart(finalStartDate, finalMaturityDate)
                      THEN response' = Reply(400, user,
                                             Str("Maturity date must be after start date."))
                           /\ UNCHANGED fixedDeposits
                      ELSE response' = Reply(200, user, Object(updatedFixedDeposit))
                           /\ fixedDeposits' = (fixedDeposits \ {existingFixedDeposit})
                                                  \cup {updatedFixedDeposit}
    /\ UNCHANGED <<accounts, categories, widget, balanceVars, addressVars, updateVars,
                   trendVars, clientVars>>

DepositDelete(user, id) ==
    /\ LET deleted == {d \in fixedDeposits : d.id = id /\ d.userId = user}
       IN  CASE user = NoUser ->
                  response' = Reply(401, user, Str("Unauthorized"))
                  /\ UNCHANGED fixedDeposits
             [] user # NoUser /\ deleted = {} ->
                  response' = Reply(404, user, Str("Fixed deposit not found or access denied"))
                  /\ UNCHANGED fixedDeposits
             [] OTHER ->
                  response' = Reply(200, user, Str("Fixed deposit deleted successfully"))
                  /\ fixedDeposits' = fixedDeposits \ deleted
    /\ UNCHANGED <<accounts, categories, widget, balanceVars, addressVars, updateVars,
                   trendVars, clientVars>>

DepositBody(bankName, startDate, maturityDate) ==
    [bankName |-> bankName, startDate |-> startDate, maturityDate |-> maturityDate]

DepositDates == 0 .. 2

DepositIds == 1 .. MaxDeposits

\* every pair of dates, and payloads with a date missing or malformed
DepositPostRequests ==
    {[user |-> "u1", json |-> DepositBody(Str("b"), DateVal(s), DateVal(m))] :
        s \in DepositDates, m \in DepositDates}
    \cup {[user |-> "u1", json |-> DepositBody(Str("b"), s, DateVal(1))] :
            s \in {Absent, Null, Str("x"), Num(0)}}
    \cup {[user |-> "u1", json |-> DepositBody(Str(""), DateVal(0), DateVal(1))],
          [user |-> NoUser, json |-> DepositBody(Str("b"), DateVal(0), DateVal(1))]}

\* either date given, omitted, null, empty or malformed
DepositPutBodies ==
    {DepositBody(Absent, s, m) :
        s \in {Absent} \cup {DateVal(d) : d \in DepositDates},
        m \in {Absent} \cup {DateVal(d) : d \in DepositDates}}
    \cup {DepositBody(Absent, s, m) : s \in {Null, Str(""), Str("x"), Num(0)},
                                       m \in {Absent, DateVal(0)}}
    \cup {DepositBody(Str("c"), Absent, Absent), DepositBody(Str(""), Absent, Absent)}

DepositPutRequests ==
    {[user |-> "u1", id |-> i, json |-> j] : i \in DepositIds, j \in DepositPutBodies}
    \cup {[user |-> u, id |-> 1, json |-> DepositBody(Absent, DateVal(2), Absent)] :
            u \in {"u2", NoUser}}

DepositDeleteRequests ==
    {[user |-> "u1", id |-> i] : i \in DepositIds}
    \cup {[user |-> u, id |-> 1] : u \in {"u2", NoUser}}

InitDeposits == Init

\* the requests are processed one at a time
NextDeposits ==
    \/ \E r \in DepositPostRequests : DepositPost(r.user, r.json)
    \/ \E r \in DepositPutRequests : DepositPut(r.user, r.id, r.json)
    \/ \E r \in DepositDeleteRequests : DepositDelete(r.user, r.id)

SpecDeposits == InitDeposits /\ [][NextDeposits]_vars

\* the dates a request would leave in the row: those it carries, else the stored ones
WouldStart(json, row) ==
    IF json.startDate.kind = "date" THEN json.startDate.val ELSE row.startDate

WouldMature(json, row) ==
    IF json.maturityDate.kind = "date" THEN json.maturityDate.val ELSE row.maturityDate

\* each date of the payload is a date, or is omitted
DatesGivenOrOmitted(json) ==
    json.startDate.kind \in {"date", "undefined"}
        /\ json.maturityDate.kind \in {"date", "undefined"}

\* C20: every stored fixed deposit has maturityDate after startDate, and a POST, or a PUT
\* to a deposit of the caller, whose dates (the stored one for a date the payload omits)
\* would have maturityDate <= startDate is answered 400 and changes nothing.
C20_MaturityAfterStart ==
    /\ [](\A d \in fixedDeposits : d.maturityDate > d.startDate)
    /\ [][/\ \A r \in DepositPostRequests :
               (/\ DepositPost(r.user, r.json)
                /\ r.user # NoUser
                /\ r.json.startDate.kind = "date" /\ r.json.maturityDate.kind = "date"
                /\ r.json.maturityDate.val <= r.json.startDate.val)
                  => (response'.status = 400 /\ UNCHANGED fixedDeposits)
          /\ \A r \in DepositPutRequests : \A row \in fixedDeposits :
               (/\ DepositPut(r.user, r.id, r.json)
                /\ row.id = r.id /\ row.userId = r.user
                /\ DatesGivenOrOmitted(r.json)
                /\ WouldMature(r.json, row) <= WouldStart(r.json, row))
                  => (response'.status = 400 /\ UNCHANGED fixedDeposits)]_vars

\* a PUT carrying one date only was answered 400 for the stored other date, and the
\* deposit is stored as before
C20_Witness ==
    /\ response = Reply(400, "u1", Str("Maturity date must be after start date."))
    /\ \E d \in fixedDeposits : d.startDate = 1 /\ d.maturityDate = 2
    /\ Cardinality(fixedDeposits) = MaxDeposits

----------------------------------------------------------------------------
(* Requests without a session, sent to every handler, with rows in the tables *)

\* a balance entry as POST stores it
StoredBalanceEntry ==
    PostRow("u1", createBalanceEntrySchema(
        PostBody(Str("a1"), DateVal(0), Num(3), Str("usd"), Absent, Absent, Absent)))

\* the address, identity-document and mutual-fund tables: all empty, or one row in one
StoredRowSets ==
    {[addresses |-> {}, documents |-> {}, funds |-> {}],
     [addresses |-> {[id |-> 1, userId |-> "u1", line1 |-> "x", fromDate |-> 0,
                      toDate |-> Null, isCurrent |-> TRUE]},
      documents |-> {}, funds |-> {}],
     [addresses |-> {},
      documents |-> {[id |-> 1, userId |-> "u1", docNumber |-> "d1", issueDate |-> Null,
                      expiryDate |-> Null, isPrimary |-> FALSE]},
      funds |-> {}],
     [addresses |-> {}, documents |-> {},
      funds |-> {[id |-> 1, userId |-> "u1", fundName |-> "f", unitsHeld |-> 2,
                  currentNAV |-> Null, currency |-> "USD"]}]}

StoredAccountSets ==
    {{}, {[id |-> 1, userId |-> "u1", nickname |-> "n", assetCategoryId |-> Str("c1"),
           linkedAddressId |-> Null]}}

StoredDepositSets ==
    {{}, {[id |-> 1, userId |-> "u1", bankName |-> "b", startDate |-> 0, maturityDate |-> 1]}}

InitUnauth ==
    /\ balanceEntries \in {{}, {StoredBalanceEntry}}
    /\ pc = [q \in Procs |-> "idle"] /\ local = [q \in Procs |-> [op |-> "none"]]
    /\ resp = [q \in Procs |-> 0]
    /\ \E rows \in StoredRowSets :
          addresses = rows.addresses /\ documents = rows.documents /\ funds = rows.funds
    /\ apc = [q \in Procs |-> "idle"] /\ alocal = [q \in Procs |-> [op |-> "none"]]
    /\ aresp = [q \in Procs |-> 0]
    /\ ureq = [op |-> "none"] /\ uresp = 0
    /\ trendEntries \in {S \in TrendStores : Cardinality(S) <= 1 /\ \A e \in S : e.accountId = "t1" /\ e.entryDate = 0}
    /\ trendData = [status |-> 0]
    /\ accounts \in StoredAccountSets /\ categories = SharedCategories
    /\ fixedDeposits \in StoredDepositSets
    /\ IdleClient
    /\ widget = [state |-> "unmounted"] /\ response = NoResponse

\* the requests of a set that carry no session
NoSession(requests) == {r \in requests : r.user = NoUser}

\* category payloads of the requests without a session
CategoryBodies == {j \in CategoryBody : j.name = Absent /\ j.parentCategoryId = Absent}

\* every handler is called without a session; the Return steps deliver the responses
NextUnauth ==
    \/ \E r \in NoSession(PostRequests) : PostBegin("p1", NoUser, r.json)
    \/ \E r \in NoSession(PutRequests) : PutFind("p1", NoUser, r.id, r.json)
    \/ \E r \in NoSession(DeleteRequests) : DeleteFind("p1", NoUser, r.id)
    \/ Return("p1")
    \/ \E r \in NoSession(AddressPostRequests) : AddressPostBegin("p1", NoUser, r.json)
    \/ \E r \in NoSession(AddressPutRequests) : AddressPutBegin("p1", NoUser, r.id, r.json)
    \/ \E r \in NoSession(AddressDeleteRequests) : AddressDelete("p1", NoUser, r.id)
    \/ AddressReturn("p1")
    \/ \E r \in NoSession(DocumentPostRequests) : DocumentPost(NoUser, r.json)
    \/ \E r \in NoSession(DocumentPutRequests) : DocumentPut(NoUser, r.id, r.json)
    \/ \E r \in NoSession(RowDeleteRequests) : DocumentDelete(NoUser, r.id)
    \/ \E r \in NoSession(FundPostRequests) : FundPost(NoUser, r.json)
    \/ \E r \in NoSession(FundPutRequests) : FundPut(NoUser, r.id, r.json)
    \/ \E r \in NoSession(RowDeleteRequests) : FundDelete(NoUser, r.id)
    \/ UpdateReturn
    \/ TrendGet(NoUser)
    \/ BreakdownGet(NoUser)
    \/ SummaryGet(NoUser)
    \/ \E r \in NoSession(AccountPostRequests) : AccountPost(NoUser, r.json)
    \/ AccountList(NoUser)
    \/ \E r \in NoSession(AccountItemRequests) : AccountGet(NoUser, r.id)
    \/ \E r \in NoSession(AccountPutRequests) : AccountPut(NoUser, r.id, r.json)
    \/ \E r \in NoSession(AccountItemRequests) : AccountDelete(NoUser, r.id)
    \/ \E id \in CategoryIds, json \in CategoryBodies : CategoryPut(NoUser, id, json)
    \/ \E id \in CategoryIds : CategoryDelete(NoUser, id)
    \/ \E r \in NoSession(DepositPostRequests) : DepositPost(NoUser, r.json)
    \/ \E r \in NoSession(DepositPutRequests) : DepositPut(NoUser, r.id, r.json)
    \/ \E r \in NoSession(DepositDeleteRequests) : DepositDelete(NoUser, r.id)

SpecUnauth == InitUnauth /\ [][NextUnauth]_vars

\* the tables of the database
Tables ==
    <<balanceEntries, addresses, documents, funds, accounts, categories, trendEntries,
      fixedDeposits>>

Unauthorized == Reply(401, NoUser, Str("Unauthorized"))

Infinity(s) == [kind |-> "infinity", sign |-> s]
Abs(n) == IF n < 0 THEN -n ELSE n
Sign(n) == IF n < 0 THEN -1 ELSE IF n = 0 THEN 0 ELSE 1

RECURSIVE GCD(_, _)
GCD(a, b) == IF b = 0 THEN a ELSE GCD(b, a % b)

\* the finite number n / d (d > 0), in lowest terms
Fraction(n, d) ==
    LET g == GCD(Abs(n), d)
    IN  IF d \div g = 1 THEN Num(n \div g)
        ELSE [kind |-> "fraction", num |-> n \div g, den |-> d \div g]

IsFinite(x) == x.kind \in {"num", "fraction"}
Numerator(x) == IF x.kind = "num" THEN x.val ELSE x.num
Denominator(x) == IF x.kind = "num" THEN 1 ELSE x.den
SignOf(x) == IF IsFinite(x) THEN Sign(Numerator(x)) ELSE x.sign

\* x * y of JavaScript numbers; common factors are removed before multiplying
Times(x, y) ==
    IF x = NaN \/ y = NaN THEN NaN
    ELSE IF IsFinite(x) /\ IsFinite(y)
         THEN LET g1 == GCD(Abs(Numerator(x)), Denominator(y))
                  g2 == GCD(Abs(Numerator(y)), Denominator(x))
              IN  Fraction((Numerator(x) \div g1) * (Numerator(y) \div g2),
                           (Denominator(x) \div g2) * (Denominator(y) \div g1))
         ELSE IF SignOf(x) = 0 \/ SignOf(y) = 0 THEN NaN
              ELSE Infinity(SignOf(x) * SignOf(y))

\* x / n for a positive integer n
DividedBy(x, n) == Times(x, Fraction(1, n))

\* x + y of JavaScript numbers
Plus(x, y) ==
    IF x = NaN \/ y = NaN THEN NaN
    ELSE IF IsFinite(x) /\ IsFinite(y)
         THEN Fraction(Numerator(x) * Denominator(y) + Numerator(y) * Denominator(x),
                       Denominator(x) * Denominator(y))
         ELSE IF ~IsFinite(x) /\ ~IsFinite(y) /\ x.sign # y.sign THEN NaN
              ELSE IF IsFinite(x) THEN y ELSE x

\* isNaN(x)
IsNaN(x) == x = NaN

\* date.getTime(), in days: NaN for an Invalid Date
GetTime(date) == IF date.kind = "date" THEN Num(date.val) ELSE NaN

\* x <= 0 for a JavaScript number: false for NaN
NotPositive(x) == x # NaN /\ SignOf(x) <= 0

\* a >= b for two Date objects: false when either is an Invalid Date
DateGreaterOrEqual(a, b) == a.kind = "date" /\ b.kind = "date" /\ a.val >= b.val

\* value instanceof Date: true for an Invalid Date as well
InstanceOfDate(value) == value.kind \in {"date", "invalid date"}

\* 365.25 days, times four
FourYearsInDays == 1461

\* durationInMilliseconds / (1000 * 60 * 60 * 24 * 365.25), with the duration in days
DurationInYears(duration) == DividedBy(Times(duration, Num(4)), FourYearsInDays)

calculateMaturityValue(principal, rate, startDate, maturityDate) ==
    IF \/ IsNaN(principal) \/ IsNaN(rate)
       \/ ~InstanceOfDate(startDate) \/ ~InstanceOfDate(maturityDate)
       \/ DateGreaterOrEqual(startDate, maturityDate)
    THEN principal
    ELSE LET durationInMilliseconds ==
                 Plus(GetTime(maturityDate), Times(Num(-1), GetTime(startDate)))
             durationInYears == DurationInYears(durationInMilliseconds)
             maturityAmount ==
                 Times(principal,
                       Plus(Num(1), Times(DividedBy(rate, 100), durationInYears)))
         IN  IF NotPositive(durationInMilliseconds) THEN principal ELSE maturityAmount

\* Number(fd.principalAmount), Number(fd.interestRate)
PrincipalAmounts == {NaN, Infinity(1), Num(0), Num(1000), Num(100000)}
InterestRates == {NaN, Infinity(1), Num(0), Num(6)}
\* new Date(fd.startDate), new Date(fd.maturityDate)
RowDates == {InvalidDate, DateVal(0), DateVal(366), DateVal(731)}

InitMaturity ==
    /\ IdleBalance /\ IdleAddress /\ IdleUpdate /\ IdleTrend /\ IdleDash /\ IdleDeposits
    /\ component \in [name : {"FixedDepositManager"}, principal : PrincipalAmounts,
                      rate : InterestRates, startDate : RowDates,
                      maturityDate : RowDates, maturityValue : {Absent}]

\* one row of the table is rendered
RenderRow ==
    /\ component.name = "FixedDepositManager"
    /\ component.maturityValue = Absent
    /\ component' = [component EXCEPT !.maturityValue =
                        calculateMaturityValue(component.principal, component.rate,
                                               component.startDate, component.maturityDate)]
    /\ UNCHANGED <<balanceVars, addressVars, updateVars, trendVars, dashVars, depositVars>>

NextMaturity == RenderRow

SpecMaturity == InitMaturity /\ [][NextMaturity]_vars

RowRendered == component.name = "FixedDepositManager" /\ component.maturityValue # Absent

ValidDate(date) == date.kind = "date"

\* P * (1 + (R / 100) * (M - S) / 365.25 days), computed as P + P * R * 4 * days / 146100
SimpleInterest(P, R, S, M) ==
    Plus(Num(P), Fraction(P * R * 4 * (M - S), 100 * FourYearsInDays))

\* C21: calculateMaturityValue returns P * (1 + (R / 100) * (M - S) / 365.25 days) when
\* the maturity date M is after the start date S, and returns P unchanged when M <= S or
\* when an input is not a finite number or not a valid date.
C21_MaturityValue ==
    RowRendered =>
        IF /\ IsFinite(component.principal) /\ IsFinite(component.rate)
           /\ ValidDate(component.startDate) /\ ValidDate(component.maturityDate)
           /\ component.maturityDate.val > component.startDate.val
        THEN component.maturityValue =
                 SimpleInterest(component.principal.val, component.rate.val,
                                component.startDate.val, component.maturityDate.val)
        ELSE component.maturityValue = component.principal

\* the same for finite numbers and valid dates only, and for a NaN principal or rate
C21_FiniteInputs ==
    (RowRendered /\ ValidDate(component.startDate) /\ ValidDate(component.maturityDate)
       /\ component.principal.kind # "infinity" /\ component.rate.kind # "infinity")
        => IF /\ IsFinite(component.principal) /\ IsFinite(component.rate)
              /\ component.maturityDate.val > component.startDate.val
           THEN component.maturityValue =
                    SimpleInterest(component.principal.val, component.rate.val,
                                   component.startDate.val, component.maturityDate.val)
           ELSE component.maturityValue = component.principal

\* 100000 at 6% from 2024-01-01 to 2025-01-01 (366 days) gives 106012.32..., within
\* 0.1% of 106000
C21_Example ==
    (RowRendered /\ component.principal = Num(100000) /\ component.rate = Num(6)
       /\ component.startDate = DateVal(0) /\ component.maturityDate = DateVal(366))
        => /\ IsFinite(component.maturityValue)
           /\ Numerator(component.maturityValue) > 105894 * Denominator(component.maturityValue)
           /\ Numerator(component.maturityValue) < 106106 * Denominator(component.maturityValue)

\* an Invalid Date was passed and the value shown is NaN
C21_InvalidDateGivesNaN ==
    /\ RowRendered /\ IsFinite(component.principal) /\ IsFinite(component.rate)
    /\ ~ValidDate(component.startDate)
    /\ component.maturityValue = NaN

\* ---------------------------------------------------------------------------
\* Asset categories: POST, PUT and DELETE on an initially empty table, and the
\* parentCategoryId relation they leave behind.
\* ---------------------------------------------------------------------------
\* name: z.string().min(1), type: z.nativeEnum(AssetType),
\* parentCategoryId: z.string().optional().nullable().transform(val => val === "" ? null : val)
createAssetCategorySchema(json) ==
    IF /\ NonEmptyString(json.name)
       /\ json.type.kind = "str" /\ json.type.val \in AssetType
       /\ StringNullableOptionalOk(json.parentCategoryId)
    THEN [json EXCEPT !.parentCategoryId = IF @ = Str("") THEN Null ELSE @]
    ELSE Invalid

\* the ids the database hands out; the table holds at most this many categories
MaxCategories == 3
NewCategoryIds == {"c1", "c2", "c3", "c4"}
IdNumber(id) == CHOOSE n \in 1 .. 4 : id = <<"c1", "c2", "c3", "c4">>[n]
FreshCategoryIds ==
    {id \in NewCategoryIds : IdNumber(id) <= MaxCategories /\ \A c \in categories : c.id # id}

CategoryPost(user, json) ==
    LET data == createAssetCategorySchema(json)
    IN  /\ trendData.status = 0
        /\ FreshCategoryIds # {}
        /\ IF user = NoUser
           THEN /\ response' = Reply(401, user, Str("Unauthorized"))
                /\ UNCHANGED categories
           ELSE IF data = Invalid
           THEN /\ response' = Reply(400, user, Str("ZodError"))
                /\ UNCHANGED categories
           ELSE IF CategoryNameTaken("", data)
           THEN /\ response' = Reply(409, user,
                                     Str("An asset category with this name already exists."))
                /\ UNCHANGED categories
           ELSE IF CategoryParentMissing(data)
           THEN /\ response' = Reply(400, user, Str("Invalid Parent Category ID."))
                /\ UNCHANGED categories
           ELSE LET assetCategory ==
                        [id |-> CHOOSE id \in FreshCategoryIds :
                                   \A o \in FreshCategoryIds : IdNumber(id) <= IdNumber(o),
                         name |-> data.name.val, type |-> data.type.val,
                         parentCategoryId |->
                             IF data.parentCategoryId = Absent THEN Null
                             ELSE data.parentCategoryId]
                IN  /\ categories' = categories \cup {assetCategory}
                    /\ response' = Reply(201, user, Object(assetCategory))
        /\ UNCHANGED <<accounts, widget, trendVars, depositVars, clientVars, balanceVars, addressVars, updateVars>>

ParentChoices == {Absent, Null} \cup {Str(id) : id \in NewCategoryIds}
CategoryPostBody ==
    [name : {Str(""), Str("A"), Str("B"), Str("C")}, type : {Str("ASSET")},
     parentCategoryId : ParentChoices]
CategoryMoveBody == [name : {Absent}, type : {Absent}, parentCategoryId : ParentChoices]

InitForest ==
    /\ IdleBalance /\ IdleAddress /\ IdleUpdate /\ IdleTrend /\ IdleDeposits /\ IdleClient
    /\ accounts = {} /\ categories = {}
    /\ widget = [state |-> "unmounted"] /\ response = NoResponse

NextForest ==
    \/ \E json \in CategoryPostBody : CategoryPost("u1", json)
    \/ \E id \in NewCategoryIds, json \in CategoryMoveBody : CategoryPut("u1", id, json)
    \/ \E id \in NewCategoryIds : CategoryDelete("u1", id)

SpecForest == InitForest /\ [][NextForest]_vars

\* the categories reached from category id by following parentCategoryId one to n times
RECURSIVE AncestorsWithin(_, _, _)
AncestorsWithin(rows, id, n) ==
    IF n = 0 THEN {}
    ELSE LET parents == {p \in rows : \E c \in rows : c.id = id /\ c.parentCategoryId = Str(p.id)}
         IN  {p.id : p \in parents}
                \cup UNION {AncestorsWithin(rows, p.id, n - 1) : p \in parents}

IsForest(rows) == \A c \in rows : c.id \notin AncestorsWithin(rows, c.id, Cardinality(rows))

\* C22: after any sequence of asset-category POST, PUT and DELETE requests the
\* parentCategoryId relation is a forest: no category is its own ancestor, through a
\* cycle of any length.
C22_ParentRelationIsForest == IsForest(categories)

\* what the handlers do enforce: no category is its own parent, every parent exists, and
\* POST and DELETE keep a forest a forest
C22_NoSelfParent ==
    /\ \A c \in categories : c.parentCategoryId # Str(c.id)
    /\ \A c \in categories :
          c.parentCategoryId # Null => \E p \in categories : Str(p.id) = c.parentCategoryId

C22_PostAndDeleteKeepForest ==
    [][ (/\ IsForest(categories)
         /\ \/ \E json \in CategoryPostBody : CategoryPost("u1", json)
            \/ \E id \in NewCategoryIds : CategoryDelete("u1", id))
        => IsForest(categories') ]_vars

\* ---------------------------------------------------------------------------
\* BalanceEntryForm: the dialog that creates or edits one balance entry.
\* component holds the props (entryToEdit), the React state (formData, errors,
\* serverError, isSubmitting), the request in flight, and the calls made to the
\* parent's onSave and onClose.
\* ---------------------------------------------------------------------------
\* the truthiness of a JavaScript value
JsTruthy(v) ==
    CASE v.kind = "str" -> v.val # ""
      [] v.kind = "num" -> v.val # 0
      [] v.kind = "bool" -> v.val
      [] v.kind \in {"date", "object", "array", "list"} -> TRUE
      [] OTHER -> FALSE

\* Number(v) for a number or a decimal string
ToNumber(v) ==
    CASE v.kind = "num" -> v
      [] v = Str("0") -> Num(0)
      [] v = Str("2") -> Num(2)
      [] v = Str("7") -> Num(7)
      [] OTHER -> NaN

\* balanceEntryFormSchema.safeParse: entryDate a Date, balanceOriginal a number,
\* exchangeRateToBase null or a positive number, locked a boolean (default false)
balanceEntryFormSchema(data) ==
    IF /\ data.entryDate.kind = "date"
       /\ IsNum(data.balanceOriginal)
       /\ data.exchangeRateToBase \in {Absent, Null}
             \/ (IsNum(data.exchangeRateToBase) /\ data.exchangeRateToBase.val > 0)
       /\ data.locked = Absent \/ data.locked.kind = "bool"
    THEN [data EXCEPT !.notes = IF @ = Str("") THEN Null ELSE @,
                      !.locked = IF @ = Absent THEN Bool(FALSE) ELSE @]
    ELSE Invalid

\* the entries the dialog is opened for; the amounts arrive as decimal strings
EntriesToEdit ==
    [id : {1}, balanceOriginal : {Str("0"), Str("7")}, exchangeRateToBase : {Null, Str("2")},
     notes : {Null}, locked : BOOLEAN]

\* useEffect on opening the dialog
InitialFormData(entryToEdit) ==
    IF entryToEdit # Null
    THEN [entryDate |-> DateVal(0),
          balanceOriginal |-> IF JsTruthy(entryToEdit.balanceOriginal)
                              THEN ToNumber(entryToEdit.balanceOriginal) ELSE Absent,
          exchangeRateToBase |-> IF JsTruthy(entryToEdit.exchangeRateToBase)
                                 THEN ToNumber(entryToEdit.exchangeRateToBase) ELSE Null,
          notes |-> IF JsTruthy(entryToEdit.notes) THEN entryToEdit.notes ELSE Null,
          locked |-> Bool(entryToEdit.locked)]
    ELSE [entryDate |-> DateVal(0), balanceOriginal |-> Absent, exchangeRateToBase |-> Null,
          notes |-> Null, locked |-> Bool(FALSE)]

OpenBalanceEntryForm(entryToEdit) ==
    [name |-> "BalanceEntryForm", entryToEdit |-> entryToEdit,
     formData |-> InitialFormData(entryToEdit),
     errors |-> Null, serverError |-> Null, isSubmitting |-> FALSE,
     request |-> Absent, calls |-> <<>>, isOpen |-> TRUE]

InitForm ==
    /\ IdleBalance /\ IdleAddress /\ IdleUpdate /\ IdleTrend /\ IdleDash /\ IdleDeposits
    /\ component \in {OpenBalanceEntryForm(entry) : entry \in EntriesToEdit \cup {Null}}

OtherThanComponent == <<balanceVars, addressVars, updateVars, trendVars, dashVars, depositVars>>

FormIsOpen(name) == component.name = name /\ component.isOpen

\* the amount inputs are disabled while submitting, and for a locked entry until the
\* lock checkbox is changed
AmountsDisabled ==
    \/ component.isSubmitting
    \/ /\ component.entryToEdit # Null /\ component.entryToEdit.locked
       /\ component.formData.locked = Bool(component.entryToEdit.locked)

\* handleChange of a number input: '' clears the field, anything else is parseFloat(value)
HandleChangeNumber(field, value) ==
    /\ FormIsOpen("BalanceEntryForm") /\ ~AmountsDisabled
    /\ component' = [component EXCEPT !.formData[field] = value]
    /\ UNCHANGED OtherThanComponent

\* handleChange of the month input, disabled for an existing entry
HandleChangeMonth(value) ==
    /\ FormIsOpen("BalanceEntryForm") /\ ~component.isSubmitting
    /\ component.entryToEdit = Null
    /\ component' = [component EXCEPT !.formData.entryDate = value]
    /\ UNCHANGED OtherThanComponent

\* onCheckedChange of the lock checkbox
HandleCheckedChange(checked) ==
    /\ FormIsOpen("BalanceEntryForm") /\ ~component.isSubmitting
    /\ component' = [component EXCEPT !.formData.locked = Bool(checked)]
    /\ UNCHANGED OtherThanComponent

\* the object handed to balanceEntryFormSchema.safeParse
DataToParse(formData) ==
    [formData EXCEPT
       !.balanceOriginal = IF JsTruthy(@) THEN ToNumber(@) ELSE Absent,
       !.exchangeRateToBase = IF JsTruthy(@) THEN ToNumber(@) ELSE Null]

\* the request body: for a locked entry only notes and locked
BalanceEntryPayload(entryToEdit, data) ==
    IF entryToEdit # Null /\ entryToEdit.locked
    THEN [notes |-> data.notes, locked |-> data.locked]
    ELSE data

BalanceEntryFormSubmit ==
    LET result == balanceEntryFormSchema(DataToParse(component.formData))
    IN  /\ FormIsOpen("BalanceEntryForm") /\ ~component.isSubmitting
        /\ IF result = Invalid
           THEN component' = [component EXCEPT !.errors = Str("ZodError"),
                                               !.serverError = Null]
           ELSE component' =
                    [component EXCEPT
                       !.errors = Null, !.serverError = Null, !.isSubmitting = TRUE,
                       !.request =
                           [method |-> IF component.entryToEdit # Null THEN "PUT" ELSE "POST",
                            payload |-> BalanceEntryPayload(component.entryToEdit, result)]]
        /\ UNCHANGED OtherThanComponent

\* the fetch settles: response.ok, a response that is not ok (with a JSON body, as the
\* handlers send it, or without one), or a rejected promise
FetchOutcomes == {"ok", "not ok", "not ok, body not JSON", "rejected"}

\* as FormFetchSettles, without the finally block after a failure
FormFetchSettlesNoFinally(name, outcome) ==
    /\ FormIsOpen(name) /\ component.request # Absent
    /\ IF outcome = "ok"
       THEN component' = [component EXCEPT !.calls = @ \o <<"onSave", "onClose">>,
                                           !.isOpen = FALSE,
                                           !.isSubmitting = FALSE, !.request = Absent]
       ELSE component' = [component EXCEPT !.serverError = Str(outcome),
                                           !.request = Absent]
    /\ UNCHANGED OtherThanComponent

FormFetchSettles(name, outcome) ==
    /\ FormIsOpen(name) /\ component.request # Absent
    /\ IF outcome = "ok"
       THEN component' = [component EXCEPT !.calls = @ \o <<"onSave", "onClose">>,
                                           !.isOpen = FALSE,
                                           !.isSubmitting = FALSE, !.request = Absent]
       ELSE component' = [component EXCEPT !.serverError = Str(outcome),
                                           !.isSubmitting = FALSE, !.request = Absent]
    /\ UNCHANGED OtherThanComponent

EnteredBalances == {Absent, Num(-5), Num(0), Num(7)}
EnteredRates == {Absent, Num(0), Num(2)}

NextForm ==
    \/ \E value \in EnteredBalances : HandleChangeNumber("balanceOriginal", value)
    \/ \E value \in EnteredRates : HandleChangeNumber("exchangeRateToBase", value)
    \/ \E value \in {Absent, DateVal(0)} : HandleChangeMonth(value)
    \/ \E checked \in BOOLEAN : HandleCheckedChange(checked)
    \/ BalanceEntryFormSubmit
    \/ \E outcome \in FetchOutcomes : FormFetchSettles("BalanceEntryForm", outcome)

SpecForm == InitForm /\ [][NextForm]_vars

\* the other fields of the form would pass validation
OtherFieldsValid ==
    /\ component.formData.entryDate.kind = "date"
    /\ component.formData.exchangeRateToBase \in {Absent, Null}
          \/ (IsNum(component.formData.exchangeRateToBase)
                /\ component.formData.exchangeRateToBase.val > 0)

UnlockedEdit == component.entryToEdit = Null \/ ~component.entryToEdit.locked

SendsEnteredAmounts ==
    /\ component'.request # Absent
    /\ UnlockedEdit =>
          /\ component'.request.payload.balanceOriginal = component.formData.balanceOriginal
          /\ component'.request.payload.exchangeRateToBase =
                 IF component.formData.exchangeRateToBase = Absent THEN Null
                 ELSE component.formData.exchangeRateToBase

\* C23: handleSubmit sends a create or update request for every numeric balanceOriginal
\* of any sign, 0 included (0 is not rejected as a missing value), and for an unlocked
\* entry being edited the request carries the balance and the rate entered.
C23_EveryNumericBalanceIsSent ==
    [][ (BalanceEntryFormSubmit /\ IsNum(component.formData.balanceOriginal)
           /\ OtherFieldsValid)
        => SendsEnteredAmounts ]_vars

\* the same for every balance other than 0
C23_NonZeroBalanceIsSent ==
    [][ (BalanceEntryFormSubmit /\ IsNum(component.formData.balanceOriginal)
           /\ component.formData.balanceOriginal # Num(0) /\ OtherFieldsValid)
        => SendsEnteredAmounts ]_vars

\* a balance of 0 is answered "Original balance is required." and nothing is sent
C23_ZeroIsRejected ==
    [][ (BalanceEntryFormSubmit /\ component.formData.balanceOriginal = Num(0))
        => (component'.request = Absent /\ component'.errors # Null) ]_vars

\* ---------------------------------------------------------------------------
\* Concurrent PUT /api/balance-entries/[id] requests on one stored entry: each is a
\* findFirst followed, after validation, by an update, with no transaction around them.
\* ---------------------------------------------------------------------------
\* the entry the requests are about, as POST stored it
RaceEntries ==
    {PostRow("u1", createBalanceEntrySchema(
         PostBody(Str("a1"), DateVal(0), Num(3), Str("usd"), r, Absent, l))) :
        r \in {Absent, Num(2)}, l \in {Absent, Bool(TRUE)}}

InitPutRace ==
    /\ IdleAddress /\ IdleUpdate /\ IdleTrend /\ IdleDash /\ IdleDeposits /\ IdleClient
    /\ balanceEntries \in {{e} : e \in RaceEntries}
    /\ pc = [q \in Procs |-> "idle"]
    /\ local = [q \in Procs |-> [op |-> "none"]]
    /\ resp = [q \in Procs |-> 0]

PutRaceRequests ==
    {[user |-> "u1", id |-> <<"a1", 0>>, json |-> PutBody(b, r, Absent, l)] :
        b \in {Absent, Num(5)}, r \in {Absent, Num(4)}, l \in {Absent, Bool(TRUE), Bool(FALSE)}}

NextPutRace ==
    \/ \E p \in Procs, r \in PutRaceRequests : PutFind(p, r.user, r.id, r.json)
    \/ \E p \in Procs : PutUpdate(p)
    \/ \E p \in Procs : Return(p)

SpecPutRace == InitPutRace /\ [][NextPutRace]_vars

RaceId == <<"a1", 0>>

\* C24: for every interleaving of two PUT requests on the same balance entry, once a
\* request that sets locked = true has committed, no write committed afterwards by the
\* other request changes the entry's balanceOriginal, exchangeRateToBase or balanceInBase.
C24_NoAmountWriteAfterLock ==
    [][ \A p \in Procs :
           (PutUpdate(p) /\ HasRow(RaceId) /\ Row(RaceId).locked)
           => (\E e \in balanceEntries' : e.id = RaceId /\ Amounts(e) = Amounts(Row(RaceId))) ]_vars

\* the same for a request whose findFirst ran after the lock was stored
C24_FrozenWhenLockWasRead ==
    [][ \A p \in Procs :
           (PutUpdate(p) /\ local[p].existingEntry.locked)
           => (\E e \in balanceEntries' : e.id = RaceId /\ Amounts(e) = Amounts(Row(RaceId))) ]_vars

\* both requests were answered 200 on an unlocked entry, one carrying only a new
\* balanceOriginal and the other only a new exchangeRateToBase
BalanceAndRateChanged(p, q) ==
    /\ PutDone(p) /\ PutDone(q) /\ resp[p] = 200 /\ resp[q] = 200
    /\ ~local[p].existingEntry.locked /\ ~local[q].existingEntry.locked
    /\ IsNum(local[p].json.balanceOriginal) /\ local[p].json.exchangeRateToBase = Absent
    /\ local[q].json.balanceOriginal = Absent /\ IsNum(local[q].json.exchangeRateToBase)

\* C25: for every interleaving of two PUT requests on the same unlocked balance entry, one
\* changing balanceOriginal and the other exchangeRateToBase, the entry stored after both
\* complete has balanceInBase = balanceOriginal * exchangeRateToBase (balanceOriginal when
\* the stored rate is null).
C25_ConsistentAfterBothPuts ==
    \A p, q \in Procs :
        BalanceAndRateChanged(p, q)
        => \A e \in balanceEntries :
              e.balanceInBase = IF PositiveRate(e)
                                THEN Num(e.balanceOriginal * e.exchangeRateToBase.val)
                                ELSE Num(e.balanceOriginal)

\* ---------------------------------------------------------------------------
\* Locked balance entries, requests processed one at a time: unlocking and deleting
\* ---------------------------------------------------------------------------
\* the entry with this id is stored before and after the step, with different amounts
AmountsChange(id) ==
    /\ HasRow(id)
    /\ \E e \in balanceEntries' : e.id = id /\ Amounts(e) # Amounts(Row(id))

\* C26: a PUT on a locked balance entry never changes its balanceOriginal,
\* exchangeRateToBase or balanceInBase, even when the payload sets locked = false and
\* carries new amounts; the amounts of a stored entry change only by a PUT that was issued
\* when the entry was stored unlocked.
C26_UnlockingPutKeepsAmounts ==
    [][ \A id \in EntryIds :
           /\ \A p \in Procs :
                 (PutUpdate(p) /\ local[p].id = id /\ local[p].existingEntry.locked)
                 => ~AmountsChange(id)
           /\ AmountsChange(id)
                 => /\ ~Row(id).locked
                    /\ \E p \in Procs :
                          /\ PutUpdate(p) /\ local[p].id = id
                          /\ ~local[p].existingEntry.locked ]_vars

\* a PUT that sets locked = false and carries a new balance and a new rate was answered
\* 200 on a locked entry: the entry is now unlocked and its amounts are the old ones
C26_Witness ==
    /\ PutDone("p1") /\ resp["p1"] = 200
    /\ local["p1"].existingEntry.locked
    /\ local["p1"].json.locked = Bool(FALSE)
    /\ IsNum(local["p1"].json.balanceOriginal)
    /\ local["p1"].json.balanceOriginal.val # local["p1"].existingEntry.balanceOriginal
    /\ IsNum(local["p1"].json.exchangeRateToBase)
    /\ local["p1"].existingEntry.exchangeRateToBase = Null
    /\ HasRow(local["p1"].id) /\ ~Row(local["p1"].id).locked
    /\ Amounts(Row(local["p1"].id)) = Amounts(local["p1"].existingEntry)

\* a POST about to run its create statement for an account and month that has no entry
PostIntoFreeMonth(p) ==
    /\ pc[p] = "post"
    /\ ~UniqueAccountEntryDateViolated(balanceEntries, PostRow(local[p].user, local[p].data))

NextCompare ==
    \/ \E user \in Sessions : TrendGet(user)
    \/ \E user \in Sessions : BreakdownGet(user)

SpecCompare == InitBreakdown /\ [][NextCompare]_vars

RECURSIVE SumOfCategories(_, _)
SumOfCategories(record, names) ==
    IF names = <<>> THEN 0
    ELSE (IF IsNum(record[Head(names)]) THEN record[Head(names)].val ELSE 0)
            + SumOfCategories(record, Tail(names))

\* the two answers agree: the same month dates, and per month the category values add
\* up to totalAssets + totalLiabilities
SeriesAgree(trend, breakdown) ==
    /\ trend.status = 200 /\ breakdown.status = 200
    /\ {DateVal(t.date) : t \in {trend.body[i] : i \in DOMAIN trend.body}}
          = {b["date"] : b \in {breakdown.trendData[i] : i \in DOMAIN breakdown.trendData}}
    /\ \A i \in DOMAIN breakdown.trendData :
          \E j \in DOMAIN trend.body :
             /\ DateVal(trend.body[j].date) = breakdown.trendData[i]["date"]
             /\ SumOfCategories(breakdown.trendData[i], breakdown.categories)
                   = trend.body[j].totalAssets + trend.body[j].totalLiabilities

\* C28: for every state of a user's data, the net-worth trend and the category breakdown
\* return records for the same set of month dates, and for each month the sum of the
\* category values of the breakdown record equals totalAssets + totalLiabilities of the
\* trend record.
C28_TrendAndBreakdownAgree ==
    \A u \in Users :
        (trendData.status # 0 /\ trendData.user = u)
            => SeriesAgree(TrendResponse(u), BreakdownResponse(u))

\* as C28, for stores whose category names are neither "date" nor "dateObject"
C28_OrdinaryNames ==
    (\A e \in trendEntries : AssetCategoryName[e.accountId] \notin {Str("date"), Str("dateObject")})
        => C28_TrendAndBreakdownAgree

\* ---------------------------------------------------------------------------
\* BalanceManager: the account selector and the list of the selected account's
\* balance entries.  fetches counts, per account, the GET requests in flight.
\* ---------------------------------------------------------------------------
MaxFetches == 2
ManagerAccounts == {"a1", "a2", "a3"}

\* what GET /api/balance-entries?accountId= returns: the entries of that account
EntriesOf(accountId) == [kind |-> "entries", account |-> accountId]
NoEntries == [kind |-> "entries", account |-> ""]

\* after fetchAccounts: the first account is selected and its entries are being fetched
InitManager ==
    /\ IdleBalance /\ IdleAddress /\ IdleUpdate /\ IdleTrend /\ IdleDash /\ IdleDeposits
    /\ component = [name |-> "BalanceManager", selectedAccountId |-> "a1",
                    balanceEntries |-> NoEntries, isLoadingEntries |-> TRUE,
                    error |-> Null,
                    fetches |-> [a \in ManagerAccounts |-> IF a = "a1" THEN 1 ELSE 0]]

\* Select onValueChange = setSelectedAccountId, then the effect on [selectedAccountId]:
\* fetchEntriesForAccount up to its await
SelectAccount(accountId) ==
    /\ component.name = "BalanceManager"
    /\ accountId # component.selectedAccountId
    /\ component.fetches[accountId] < MaxFetches
    /\ component' = [component EXCEPT !.selectedAccountId = accountId,
                                      !.isLoadingEntries = TRUE,
                                      !.fetches[accountId] = @ + 1]
    /\ UNCHANGED OtherThanComponent

\* fetchEntriesForAccount after its await: setBalanceEntries with the response, or the
\* catch branch; finally setIsLoadingEntries(false)
FetchEntriesSettles(accountId, ok) ==
    /\ component.name = "BalanceManager"
    /\ component.fetches[accountId] > 0
    /\ component' = [component EXCEPT
                       !.balanceEntries = IF ok THEN EntriesOf(accountId) ELSE NoEntries,
                       !.error = IF ok THEN Null ELSE Str("Failed to fetch balance entries"),
                       !.isLoadingEntries = FALSE,
                       !.fetches[accountId] = @ - 1]
    /\ UNCHANGED OtherThanComponent

NextManager ==
    \/ \E accountId \in ManagerAccounts : SelectAccount(accountId)
    \/ \E accountId \in ManagerAccounts, ok \in BOOLEAN : FetchEntriesSettles(accountId, ok)

SpecManager == InitManager /\ [][NextManager]_vars

NoFetchInFlight == \A a \in ManagerAccounts : component.fetches[a] = 0

\* C29: when the selected account changes while an earlier fetch is in flight and the
\* responses arrive in any order, once no fetch is in flight the balanceEntries displayed
\* are those of the currently selected account (or none, with the error shown, when its
\* fetch failed).
C29_ListIsOfSelectedAccount ==
    (component.name = "BalanceManager" /\ NoFetchInFlight)
        => \/ component.balanceEntries = EntriesOf(component.selectedAccountId)
           \/ component.balanceEntries = NoEntries /\ component.error # Null

\* the list shown is always empty or the answer to a fetch for one of the user's accounts
C29_ListIsOfSomeAccount ==
    component.name = "BalanceManager"
        => component.balanceEntries \in {NoEntries} \cup {EntriesOf(a) : a \in ManagerAccounts}

\* ---------------------------------------------------------------------------
\* The submit handlers of the four dialogs: BalanceEntryForm, CategoryForm,
\* CreditCardForm and IdentityDocumentForm
\* ---------------------------------------------------------------------------
OpenForm(name, toEdit, formData) ==
    [name |-> name, entryToEdit |-> toEdit, formData |-> formData,
     errors |-> Null, serverError |-> Null, isSubmitting |-> FALSE,
     request |-> Absent, calls |-> <<>>, isOpen |-> TRUE]

ValidationFails == component' = [component EXCEPT !.errors = Str("ZodError"),
                                                  !.serverError = Null]

SendRequest(data) ==
    component' = [component EXCEPT
                    !.errors = Null, !.serverError = Null, !.isSubmitting = TRUE,
                    !.request = [method |-> IF component.entryToEdit # Null THEN "PUT"
                                            ELSE "POST",
                                 payload |-> data]]

\* name: z.string().min(1), type: z.nativeEnum(AssetType), parentCategoryId:
\* z.string().nullable().optional().transform(val => val === "" ? null : val)
categoryFormSchema(data) ==
    IF /\ NonEmptyString(data.name)
       /\ data.type.kind = "str" /\ data.type.val \in AssetType
       /\ StringNullableOptionalOk(data.parentCategoryId)
    THEN [data EXCEPT !.parentCategoryId = IF @ = Str("") THEN Null ELSE @]
    ELSE Invalid

CategoryFormSubmit ==
    LET processedData == [component.formData EXCEPT
                             !.parentCategoryId = IF @ = Str("none") THEN Null ELSE @]
        result == categoryFormSchema(processedData)
        categoryToEdit == component.entryToEdit
    IN  /\ FormIsOpen("CategoryForm") /\ ~component.isSubmitting
        /\ IF result = Invalid THEN ValidationFails
           ELSE IF categoryToEdit # Null /\ result.parentCategoryId = Str(categoryToEdit.id)
           THEN component' =
                    [component EXCEPT
                       !.errors = Null,
                       !.serverError = Str("A category cannot be its own parent.")]
           ELSE SendRequest(result)
        /\ UNCHANGED OtherThanComponent

\* nickname: z.string().min(1), lastFourDigits: four digits, creditLimit: a positive
\* number, expiryDate: a Date
creditCardFormSchema(data) ==
    IF /\ NonEmptyString(data.nickname)
       /\ data.lastFourDigits = Str("1234")
       /\ IsNum(data.creditLimit) /\ data.creditLimit.val > 0
       /\ data.expiryDate.kind = "date"
    THEN data
    ELSE Invalid

CreditCardFormSubmit ==
    LET dataToValidate ==
            [component.formData EXCEPT
                !.creditLimit = IF JsTruthy(@) THEN ToNumber(@) ELSE Absent,
                !.expiryDate = IF JsTruthy(@) THEN @ ELSE Absent]
        result == creditCardFormSchema(dataToValidate)
    IN  /\ FormIsOpen("CreditCardForm") /\ ~component.isSubmitting
        /\ IF result = Invalid THEN ValidationFails ELSE SendRequest(result)
        /\ UNCHANGED OtherThanComponent

\* the preprocess of issueDate: a non-empty string goes through new Date(arg), anything
\* else but a Date becomes null
PreIssueDate(arg) ==
    CASE arg = Str("2024-01-01") -> DateVal(0)
      [] arg.kind = "str" /\ arg.val # "" -> InvalidDate
      [] arg.kind = "date" -> arg
      [] OTHER -> Null

\* docType: z.nativeEnum, docNumber: z.string().min(1), issueDate: z.date().nullable()
identityDocumentFormSchema(data) ==
    IF /\ data.docType = Str("PASSPORT")
       /\ NonEmptyString(data.docNumber)
       /\ PreIssueDate(data.issueDate) \in {Null, DateVal(0)}
    THEN [data EXCEPT !.issueDate = PreIssueDate(@)]
    ELSE Invalid

IdentityDocumentFormSubmit ==
    LET dataToParse == [component.formData EXCEPT
                           !.issueDate = IF JsTruthy(@) THEN @ ELSE Null]
        result == identityDocumentFormSchema(dataToParse)
    IN  /\ FormIsOpen("IdentityDocumentForm") /\ ~component.isSubmitting
        /\ IF result = Invalid THEN ValidationFails ELSE SendRequest(result)
        /\ UNCHANGED OtherThanComponent

FormNames == {"BalanceEntryForm", "CategoryForm", "CreditCardForm", "IdentityDocumentForm"}

\* the dialogs as they are when the user presses the submit button for the first time
OpenedForms ==
    {OpenBalanceEntryForm(entry) : entry \in EntriesToEdit \cup {Null}}
    \cup {OpenForm("CategoryForm", toEdit, formData) :
            toEdit \in {Null, [id |-> "c1"]},
            formData \in [name : {Str(""), Str("Bank")}, type : {Str("ASSET")},
                          parentCategoryId : {Absent, Null, Str("c1"), Str("c2")}]}
    \cup {OpenForm("CreditCardForm", toEdit, formData) :
            toEdit \in {Null, [id |-> "k1"]},
            formData \in [nickname : {Str(""), Str("Visa")},
                          lastFourDigits : {Str("12"), Str("1234")},
                          creditLimit : {Absent, Num(0), Num(7)},
                          expiryDate : {Absent, DateVal(0)}]}
    \cup {OpenForm("IdentityDocumentForm", toEdit, formData) :
            toEdit \in {Null, [id |-> "d1"]},
            formData \in [docType : {Absent, Str("PASSPORT")}, docNumber : {Str(""), Str("X1")},
                          issueDate : {Absent, Str(""), Str("2024-01-01"), Str("x")}]}

InitSubmit ==
    /\ IdleBalance /\ IdleAddress /\ IdleUpdate /\ IdleTrend /\ IdleDash /\ IdleDeposits
    /\ component \in OpenedForms

FetchSettles == \E name \in FormNames, outcome \in FetchOutcomes : FormFetchSettles(name, outcome)

NextSubmit ==
    \/ \E value \in EnteredBalances : HandleChangeNumber("balanceOriginal", value)
    \/ \E checked \in BOOLEAN : HandleCheckedChange(checked)
    \/ BalanceEntryFormSubmit
    \/ CategoryFormSubmit
    \/ CreditCardFormSubmit
    \/ IdentityDocumentFormSubmit
    \/ FetchSettles

\* a fetch that was started settles: its promise is fulfilled or rejected
SpecSubmit == InitSubmit /\ [][NextSubmit]_vars /\ WF_vars(FetchSettles)

\* handleSubmit of any of the four forms
AnySubmit ==
    \/ BalanceEntryFormSubmit \/ CategoryFormSubmit
    \/ CreditCardFormSubmit \/ IdentityDocumentFormSubmit

\* the form's client-side checks pass on the data in the form
ClientValidationPasses ==
    CASE component.name = "BalanceEntryForm" ->
            balanceEntryFormSchema(DataToParse(component.formData)) # Invalid
      [] component.name = "CategoryForm" ->
            /\ NonEmptyString(component.formData.name)
            /\ component.entryToEdit # Null
                  => component.formData.parentCategoryId # Str(component.entryToEdit.id)
      [] component.name = "CreditCardForm" ->
            /\ NonEmptyString(component.formData.nickname)
            /\ component.formData.lastFourDigits = Str("1234")
            /\ IsNum(component.formData.creditLimit) /\ component.formData.creditLimit.val > 0
            /\ component.formData.expiryDate.kind = "date"
      [] component.name = "IdentityDocumentForm" ->
            /\ component.formData.docType = Str("PASSPORT")
            /\ NonEmptyString(component.formData.docNumber)
            /\ component.formData.issueDate \in {Absent, Str(""), Str("2024-01-01")}

C30_FailureShown ==
    /\ component.name = "IdentityDocumentForm"
    /\ component.serverError = Str("rejected")
    /\ component.calls = <<>> /\ component.isOpen /\ ~component.isSubmitting

====
